---- MODULE Spec2Model ----
(***************************************************************************)
(* Model of the rusty-iterators adapter library.                           *)
(*                                                                         *)
(* Three generations of the adapters are modelled side by side:           *)
(*   fam = "iter"      src/rusty_iterators/iter.py (Option-returning)      *)
(*   fam = "internal"  src/rusty_iterators/sync_iterators/_internal.py     *)
(*   fam = "sync"      src/rusty_iterators/iterators/_sync.py              *)
(*                                                                         *)
(* An adapter is a record holding its fields; the upstream adapter is the  *)
(* field `it` (exclusive ownership, so a nested record).  Python lists    *)
(* that can be aliased (Windows.cache, CycleCached.cache, the lists       *)
(* returned by Windows.next) live in a heap and are held by reference.    *)
(* Every method takes the adapter and the world (heap and call counters)  *)
(* and returns the mutated adapter, the result and the new world.         *)
(***************************************************************************)
EXTENDS Integers, Sequences, FiniteSets

\* ---------------------------------------------------------------- bounds
MaxLen == 3      \* longest source sequence
MaxChain == 2    \* longest operand of a Chain
MaxVal == 2      \* items are drawn from 1..MaxVal
MaxSize == 3     \* largest Take size / Windows size
MaxCalls == 7    \* next() calls made by the consumer in one run
MaxAfter == 4    \* next() calls made on each of a and a.copy() after the copy
MaxLoopCalls == 4  \* next() calls made by the consumer on a pipeline of loops

Vals == 1..MaxVal
Marker == MaxVal + 1   \* what a consumer writes into a returned window; never an item

RECURSIVE SeqsOfLen(_)
SeqsOfLen(n) ==
  IF n = 0 THEN {<<>>}
  ELSE {Append(s, v) : s \in SeqsOfLen(n - 1), v \in Vals}

Sources == UNION {SeqsOfLen(n) : n \in 0..MaxLen}

Min(a, b) == IF a < b THEN a ELSE b
Max(a, b) == IF a > b THEN a ELSE b

\* ------------------------------------------------- callables given to adapters
Funcs == {"add5", "neg"}
Preds == {"is_even", "always", "never"}

\* f(x) for a mapping callable (tests/test_map.py uses lambda x: x + 5)
Apply(f, x) ==
  CASE f = "add5" -> x + 5
    [] f = "zero" -> 0      \* lambda x: 0, a callable that takes windows too
    [] OTHER -> 0 - x

\* the callables given to FilterMap: each returns Value(y) or NoValue()
FilterMaps == {"even_add5", "nothing"}

\* f(x) for a FilterMap callable
ApplyMaybe(f, x) ==
  IF f = "even_add5" /\ x % 2 = 0
  THEN [exists |-> TRUE, value |-> x + 5, exc |-> "none"]
  ELSE [exists |-> FALSE, value |-> 0, exc |-> "none"]

\* p(x) for a filter predicate
Holds(p, x) ==
  CASE p = "is_even" -> x % 2 = 0
    [] p = "always" -> TRUE
    [] OTHER -> FALSE

\* ------------------------------------------------------------- results
\* iter.py: Value(x) / NoValue(); the exception families: a plain return
\* or a raised exception.
Value(v) == [exists |-> TRUE, value |-> v, exc |-> "none"]
NoValue == [exists |-> FALSE, value |-> 0, exc |-> "none"]
Return(v) == [exists |-> TRUE, value |-> v, exc |-> "none"]
Raise(e) == [exists |-> FALSE, value |-> 0, exc |-> e]

\* the exhaustion signal of either style
Exhausted(r) == ~r.exists /\ r.exc \in {"none", "StopIteration"}

\* ------------------------------------------------------------- the world
\* heap: the Python lists, addressed by index; pulls: calls of next() on a
\* root; items: items handed out by a root; fcalls: invocations of the
\* callable given to an adapter; copies: calls of copy() on a root; seen: the
\* arguments the callable of an Inspect was invoked with, in order.
World0 ==
  [heap |-> <<>>, pulls |-> 0, items |-> 0, fcalls |-> 0, copies |-> 0, misuse |-> 0,
   seen |-> <<>>]

Alloc(w, lst) == [ref |-> Len(w.heap) + 1, w |-> [w EXCEPT !.heap = Append(@, lst)]]

RECURSIVE next(_, _)
RECURSIVE copy(_, _)
RECURSIVE count(_, _)

\* ------------------------------------------------------------- roots
\* Iter.__init__ (iter.py): wraps a generator; gen is what it will still yield
Iter(gen) == [cls |-> "Iter", fam |-> "iter", gen |-> gen]

\* Iter.next (iter.py)
IterNext(a, w) ==
  IF a.gen # <<>>
  THEN [it |-> [a EXCEPT !.gen = Tail(@)], r |-> Value(Head(a.gen)),
        w |-> [w EXCEPT !.pulls = @ + 1, !.items = @ + 1]]
  ELSE [it |-> a, r |-> NoValue, w |-> [w EXCEPT !.pulls = @ + 1]]

\* Iter.copy (iter.py): itertools.tee gives two independent iterators over
\* the remaining items; self keeps one, the copy gets the other
IterCopy(a, w) ==
  [it |-> a, c |-> Iter(a.gen), w |-> [w EXCEPT !.copies = @ + 1]]

\* Root of the exception families: yields the items of a sequence, then
\* raises StopIteration on every call.
Root(fam, gen) == [cls |-> "Iter", fam |-> fam, gen |-> gen, copyable |-> TRUE]

\* a root over a source that cannot be duplicated
RootOnce(fam, gen) == [cls |-> "Iter", fam |-> fam, gen |-> gen, copyable |-> FALSE]

\* the root's answer to can_be_copied()
RootCanBeCopied(a) == a.copyable

RootNext(a, w) ==
  IF a.gen # <<>>
  THEN [it |-> [a EXCEPT !.gen = Tail(@)], r |-> Return(Head(a.gen)),
        w |-> [w EXCEPT !.pulls = @ + 1, !.items = @ + 1]]
  ELSE [it |-> a, r |-> Raise("StopIteration"), w |-> [w EXCEPT !.pulls = @ + 1]]

\* copy() on a root that cannot be copied is the misuse the protocol forbids;
\* misuse counts those calls
RootCopy(a, w) ==
  IF a.copyable
  THEN [it |-> a, c |-> Root(a.fam, a.gen), w |-> [w EXCEPT !.copies = @ + 1]]
  ELSE [it |-> a, c |-> a, w |-> [w EXCEPT !.misuse = @ + 1]]

\* ------------------------------------------------------ iter.py adapters
\* Map.__init__ (iter.py)
IterMap(iter, f) == [cls |-> "Map", fam |-> "iter", it |-> iter, f |-> f]

\* Map.next returning the upstream item without applying f
IterMapNext_NoApply(a, w) ==
  LET u == next(a.it, w)
  IN [it |-> [a EXCEPT !.it = u.it], r |-> u.r, w |-> u.w]

\* Map.next (iter.py)
IterMapNext(a, w) ==
  LET u == next(a.it, w)
      a1 == [a EXCEPT !.it = u.it]
  IN IF u.r.exists
     THEN [it |-> a1, r |-> Value(Apply(a.f, u.r.value)),
           w |-> [u.w EXCEPT !.fcalls = @ + 1]]
     ELSE [it |-> a1, r |-> u.r, w |-> u.w]

\* Map.count counting by draining the Map itself, as the default count does
IterMapCount_Drain(a, w) ==
  LET u == next(a, w)
  IN IF u.r.exists
     THEN LET rest == count(u.it, u.w)
          IN [it |-> rest.it, n |-> rest.n + 1, exc |-> rest.exc, w |-> rest.w]
     ELSE [it |-> u.it, n |-> 0, exc |-> "none", w |-> u.w]

\* Map.count (iter.py)
IterMapCount(a, w) ==
  LET u == count(a.it, w)
  IN [it |-> [a EXCEPT !.it = u.it], n |-> u.n, exc |-> u.exc, w |-> u.w]

\* Filter.__init__ (iter.py)
IterFilter(iter, f) == [cls |-> "Filter", fam |-> "iter", it |-> iter, f |-> f]

\* Filter.next (iter.py): the while loop, one iteration per unfolding
RECURSIVE IterFilterNext(_, _)
IterFilterNext(a, w) ==
  LET u == next(a.it, w)
      a1 == [a EXCEPT !.it = u.it]
      w1 == [u.w EXCEPT !.fcalls = @ + 1]
  IN IF u.r.exists
     THEN IF Holds(a.f, u.r.value)
          THEN [it |-> a1, r |-> u.r, w |-> w1]
          ELSE IterFilterNext(a1, w1)
     ELSE [it |-> a1, r |-> u.r, w |-> u.w]

\* Cycle.__init__ (iter.py): orig is the adapter passed in, iter a copy of it
IterCycle(iter, w) ==
  LET c == copy(iter, w)
  IN [it |-> [cls |-> "Cycle", fam |-> "iter", orig |-> c.it, it |-> c.c,
              restarts |-> 0],
      w |-> c.w]

\* Cycle.next (iter.py); restarts counts the copies taken of orig
IterCycleNext(a, w) ==
  LET u == next(a.it, w)
  IN IF u.r.exists
     THEN [it |-> [a EXCEPT !.it = u.it], r |-> u.r, w |-> u.w]
     ELSE LET c == copy(a.orig, u.w)
              v == next(c.c, c.w)
          IN [it |-> [a EXCEPT !.orig = c.it, !.it = v.it, !.restarts = @ + 1],
              r |-> v.r, w |-> v.w]

\* Enumerate.__init__ (iter.py)
IterEnumerate(iter) == [cls |-> "Enumerate", fam |-> "iter", it |-> iter, curr_idx |-> 0]

\* Enumerate.next (iter.py); curr_idx is the field curr_item
IterEnumerateNext(a, w) ==
  LET u == next(a.it, w)
  IN IF u.r.exists
     THEN [it |-> [a EXCEPT !.it = u.it, !.curr_idx = @ + 1],
           r |-> Value(<<a.curr_idx, u.r.value>>), w |-> u.w]
     ELSE [it |-> [a EXCEPT !.it = u.it], r |-> u.r, w |-> u.w]

\* Enumerate.count (iter.py)
IterEnumerateCount(a, w) ==
  LET u == count(a.it, w)
  IN [it |-> [a EXCEPT !.it = u.it], n |-> u.n, exc |-> u.exc, w |-> u.w]

\* IterInterface.count (iter.py): the default, draining with next()
RECURSIVE IterCount(_, _)
\* ctr += 1 on the count of what follows
CountOneMore(rest) == [it |-> rest.it, n |-> rest.n + 1, exc |-> rest.exc, w |-> rest.w]

\* one turn of the loop of count (iter.py) on the result u of next()
IterCountStep(u) ==
  IF u.r.exists THEN CountOneMore(IterCount(u.it, u.w))
  ELSE [it |-> u.it, n |-> 0, exc |-> "none", w |-> u.w]

IterCount(a, w) == IterCountStep(next(a, w))

\* IterInterface.collect (iter.py); exc is "none": nothing is raised here
RECURSIVE IterCollect(_, _)
\* the item of u in front of the list of what follows
CollectPrepend(u, rest) ==
  [it |-> rest.it, lst |-> <<u.r.value>> \o rest.lst, exc |-> rest.exc, w |-> rest.w]

\* one turn of the loop of collect (iter.py) on the result u of next()
IterCollectStep(u) ==
  IF u.r.exists THEN CollectPrepend(u, IterCollect(u.it, u.w))
  ELSE [it |-> u.it, lst |-> <<>>, exc |-> "none", w |-> u.w]

IterCollect(a, w) == IterCollectStep(next(a, w))

\* ------------------------------------------------------ _sync.py adapters
\* a result that leaves the adapter through an exception raised upstream
Propagate(a, u) == [it |-> [a EXCEPT !.it = u.it], r |-> u.r, w |-> u.w]

\* Map.__init__ (_sync.py)
SyncMap(it, f) == [cls |-> "Map", fam |-> "sync", it |-> it, f |-> f]

\* Map.next (_sync.py)
SyncMapNext(a, w) ==
  LET u == next(a.it, w)
  IN IF u.r.exists
     THEN [it |-> [a EXCEPT !.it = u.it], r |-> Return(Apply(a.f, u.r.value)),
           w |-> [u.w EXCEPT !.fcalls = @ + 1]]
     ELSE Propagate(a, u)

\* Map.count (_sync.py)
SyncMapCount(a, w) ==
  LET u == count(a.it, w)
  IN [it |-> [a EXCEPT !.it = u.it], n |-> u.n, exc |-> u.exc, w |-> u.w]

\* Enumerate.__init__ (_sync.py)
SyncEnumerate(it) == [cls |-> "Enumerate", fam |-> "sync", it |-> it, curr_idx |-> 0]

\* Enumerate.next (_sync.py)
SyncEnumerateNext(a, w) ==
  LET u == next(a.it, w)
  IN IF u.r.exists
     THEN [it |-> [a EXCEPT !.it = u.it, !.curr_idx = @ + 1],
           r |-> Return(<<a.curr_idx, u.r.value>>), w |-> u.w]
     ELSE Propagate(a, u)

\* Enumerate.count (_sync.py)
SyncEnumerateCount(a, w) ==
  LET u == count(a.it, w)
  IN [it |-> [a EXCEPT !.it = u.it], n |-> u.n, exc |-> u.exc, w |-> u.w]

\* Filter.__init__ (_sync.py)
SyncFilter(it, f) == [cls |-> "Filter", fam |-> "sync", it |-> it, f |-> f]

\* Filter.next returning the first upstream item whatever f says of it
SyncFilterNext_First(a, w) ==
  LET u == next(a.it, w)
  IN IF u.r.exists
     THEN [it |-> [a EXCEPT !.it = u.it], r |-> Return(u.r.value),
           w |-> [u.w EXCEPT !.fcalls = @ + 1]]
     ELSE Propagate(a, u)

\* Filter.next (_sync.py): while True, one iteration per unfolding
RECURSIVE SyncFilterNext(_, _)
SyncFilterNext(a, w) ==
  LET u == next(a.it, w)
      a1 == [a EXCEPT !.it = u.it]
      w1 == [u.w EXCEPT !.fcalls = @ + 1]
  IN IF u.r.exists
     THEN IF Holds(a.f, u.r.value)
          THEN [it |-> a1, r |-> Return(u.r.value), w |-> w1]
          ELSE SyncFilterNext(a1, w1)
     ELSE Propagate(a, u)

\* Take.__init__ (_sync.py)
SyncTake(it, size) == [cls |-> "Take", fam |-> "sync", it |-> it, size |-> size, taken |-> 0]

\* Take.next starting over once the limit is reached
SyncTakeNext_Reset(a, w) ==
  IF a.taken = a.size
  THEN [it |-> [a EXCEPT !.taken = 0], r |-> Raise("StopIteration"), w |-> w]
  ELSE LET u == next(a.it, w)
       IN IF u.r.exists
          THEN [it |-> [a EXCEPT !.it = u.it, !.taken = @ + 1],
                r |-> Return(u.r.value), w |-> u.w]
          ELSE Propagate(a, u)

\* Take.next with the limit test off by one (taken > size)
SyncTakeNext_OffByOne(a, w) ==
  IF a.taken > a.size
  THEN [it |-> a, r |-> Raise("StopIteration"), w |-> w]
  ELSE LET u == next(a.it, w)
       IN IF u.r.exists
          THEN [it |-> [a EXCEPT !.it = u.it, !.taken = @ + 1],
                r |-> Return(u.r.value), w |-> u.w]
          ELSE Propagate(a, u)

\* Take.next (_sync.py)
SyncTakeNext(a, w) ==
  IF a.taken = a.size
  THEN [it |-> a, r |-> Raise("StopIteration"), w |-> w]
  ELSE LET u == next(a.it, w)
       IN IF u.r.exists
          THEN [it |-> [a EXCEPT !.it = u.it, !.taken = @ + 1],
                r |-> Return(u.r.value), w |-> u.w]
          ELSE Propagate(a, u)

\* Chain.__init__ (_sync.py)
SyncChain(first, second) ==
  [cls |-> "Chain", fam |-> "sync", first |-> first, second |-> second,
   use_second |-> FALSE]

\* Chain.next asking first again on every call, flipped or not
SyncChainNext_Recheck(a, w) ==
  LET u == next(a.first, w)
      a1 == [a EXCEPT !.first = u.it]
  IN IF u.r.exc = "StopIteration"
     THEN LET v == next(a.second, u.w)
          IN [it |-> [a1 EXCEPT !.use_second = TRUE, !.second = v.it],
              r |-> v.r, w |-> v.w]
     ELSE [it |-> a1, r |-> u.r, w |-> u.w]

\* Chain.next (_sync.py): after the flip it calls self.next() again
RECURSIVE SyncChainNext(_, _)
SyncChainNext(a, w) ==
  IF a.use_second
  THEN LET v == next(a.second, w)
       IN [it |-> [a EXCEPT !.second = v.it], r |-> v.r, w |-> v.w]
  ELSE LET u == next(a.first, w)
           a1 == [a EXCEPT !.first = u.it]
       IN IF u.r.exc = "StopIteration"
          THEN SyncChainNext([a1 EXCEPT !.use_second = TRUE], u.w)
          ELSE [it |-> a1, r |-> u.r, w |-> u.w]

\* CycleCached.__init__ (_sync.py): cache is a fresh empty list
SyncCycleCached(it, w) ==
  LET l == Alloc(w, <<>>)
  IN [it |-> [cls |-> "CycleCached", fam |-> "sync", it |-> it, cache |-> l.ref,
              ptr |-> 0, use_cache |-> FALSE],
      w |-> l.w]

\* CycleCached.next replaying without advancing ptr
SyncCycleCachedNext_NoAdvance(a, w) ==
  IF a.use_cache
  THEN IF Len(w.heap[a.cache]) = 0
       THEN [it |-> a, r |-> Raise("ZeroDivisionError"), w |-> w]
       ELSE LET p == a.ptr % Len(w.heap[a.cache])
            IN [it |-> [a EXCEPT !.ptr = p],
                r |-> Return(w.heap[a.cache][p + 1]), w |-> w]
  ELSE LET u == next(a.it, w)
           a1 == [a EXCEPT !.it = u.it]
       IN IF u.r.exists
          THEN [it |-> a1, r |-> Return(u.r.value),
                w |-> [u.w EXCEPT !.heap[a.cache] = Append(@, u.r.value)]]
          ELSE IF u.r.exc = "StopIteration"
               THEN next([a1 EXCEPT !.use_cache = TRUE], u.w)
               ELSE Propagate(a, u)

\* CycleCached.next (_sync.py); ptr % len(cache) raises ZeroDivisionError
\* when the cache is empty
RECURSIVE SyncCycleCachedNext(_, _)
SyncCycleCachedNext(a, w) ==
  IF a.use_cache
  THEN IF Len(w.heap[a.cache]) = 0
       THEN [it |-> a, r |-> Raise("ZeroDivisionError"), w |-> w]
       ELSE LET p == a.ptr % Len(w.heap[a.cache])
            IN [it |-> [a EXCEPT !.ptr = p + 1],
                r |-> Return(w.heap[a.cache][p + 1]), w |-> w]
  ELSE LET u == next(a.it, w)
           a1 == [a EXCEPT !.it = u.it]
       IN IF u.r.exists
          THEN [it |-> a1, r |-> Return(u.r.value),
                w |-> [u.w EXCEPT !.heap[a.cache] = Append(@, u.r.value)]]
          ELSE IF u.r.exc = "StopIteration"
               THEN SyncCycleCachedNext([a1 EXCEPT !.use_cache = TRUE], u.w)
               ELSE Propagate(a, u)

\* CycleCopy.__init__ (_sync.py): it is a copy, orig the adapter passed in
SyncCycleCopy(it, w) ==
  LET c == copy(it, w)
  IN [it |-> [cls |-> "CycleCopy", fam |-> "sync", it |-> c.c, orig |-> c.it,
              restarts |-> 0],
      w |-> c.w]

\* CycleCopy.next retrying with self.next() after the restart: on a source
\* that is empty the recursion ends in RecursionError
SyncCycleCopyNext_Retry(a, w) ==
  LET u == next(a.it, w)
  IN IF u.r.exc = "StopIteration"
     THEN LET c == copy(a.orig, u.w)
              v == next(c.c, c.w)
              a1 == [a EXCEPT !.orig = c.it, !.it = v.it, !.restarts = @ + 1]
          IN IF v.r.exc = "StopIteration"
             THEN [it |-> a1, r |-> Raise("RecursionError"), w |-> v.w]
             ELSE [it |-> a1, r |-> v.r, w |-> v.w]
     ELSE Propagate(a, u)

\* CycleCopy.next (_sync.py); restarts counts the copies taken of orig
SyncCycleCopyNext(a, w) ==
  LET u == next(a.it, w)
  IN IF u.r.exc = "StopIteration"
     THEN LET c == copy(a.orig, u.w)
              v == next(c.c, c.w)
          IN [it |-> [a EXCEPT !.orig = c.it, !.it = v.it, !.restarts = @ + 1],
              r |-> v.r, w |-> v.w]
     ELSE Propagate(a, u)

\* Windows.__init__ (_sync.py): no check of size; cache is a fresh empty list
SyncWindows(it, size, w) ==
  LET l == Alloc(w, <<>>)
  IN [it |-> [cls |-> "Windows", fam |-> "sync", it |-> it, size |-> size,
              cache |-> l.ref, ptr |-> 0],
      w |-> l.w]

\* Windows.next, lines 624-627: the loop that reads the window out of the
\* circular buffer, k iterations left
RECURSIVE WindowsRead(_, _, _, _, _)
WindowsRead(cache, ptr, size, k, result) ==
  IF k <= 0 THEN [ptr |-> ptr, result |-> result]
  ELSE LET p == ptr % size
       IN WindowsRead(cache, p + 1, size, k - 1, Append(result, cache[p + 1]))

\* Windows.next, lines 630-631: the loop that fills the cache, k iterations
\* left; an exception of upstream leaves what was appended so far
RECURSIVE WindowsFill(_, _, _)
WindowsFill(a, w, k) ==
  IF k <= 0 THEN [it |-> a, r |-> Return(0), w |-> w]
  ELSE LET u == next(a.it, w)
       IN IF u.r.exists
          THEN WindowsFill([a EXCEPT !.it = u.it],
                           [u.w EXCEPT !.heap[a.cache] = Append(@, u.r.value)], k - 1)
          ELSE Propagate(a, u)

\* Windows.next returning self.cache itself, not a copy, after the fill
SyncWindowsNext_Alias(a, w) ==
  IF Len(w.heap[a.cache]) = a.size
  THEN IF a.size = 0
       THEN [it |-> a, r |-> Raise("ZeroDivisionError"), w |-> w]
       ELSE LET p == a.ptr % a.size
                u == next(a.it, w)
            IN IF u.r.exists
               THEN LET cache == [u.w.heap[a.cache] EXCEPT ![p + 1] = u.r.value]
                        rd == WindowsRead(cache, p + 1, a.size, a.size, <<>>)
                        w1 == [u.w EXCEPT !.heap[a.cache] = cache]
                        l == Alloc(w1, rd.result)
                    IN [it |-> [a EXCEPT !.it = u.it, !.ptr = rd.ptr],
                        r |-> Return(l.ref), w |-> l.w]
               ELSE Propagate([a EXCEPT !.ptr = p], u)
  ELSE LET fl == WindowsFill(a, w, a.size)
       IN IF fl.r.exists
          THEN [it |-> fl.it, r |-> Return(a.cache), w |-> fl.w]
          ELSE fl

\* Windows.next (_sync.py); the value returned is a reference to a new list
SyncWindowsNext(a, w) ==
  IF Len(w.heap[a.cache]) = a.size
  THEN IF a.size = 0
       THEN [it |-> a, r |-> Raise("ZeroDivisionError"), w |-> w]
       ELSE LET p == a.ptr % a.size
                u == next(a.it, w)
            IN IF u.r.exists
               THEN LET cache == [u.w.heap[a.cache] EXCEPT ![p + 1] = u.r.value]
                        rd == WindowsRead(cache, p + 1, a.size, a.size, <<>>)
                        w1 == [u.w EXCEPT !.heap[a.cache] = cache]
                        l == Alloc(w1, rd.result)
                    IN [it |-> [a EXCEPT !.it = u.it, !.ptr = rd.ptr],
                        r |-> Return(l.ref), w |-> l.w]
               ELSE Propagate([a EXCEPT !.ptr = p], u)
  ELSE LET fl == WindowsFill(a, w, a.size)
       IN IF fl.r.exists
          THEN LET l == Alloc(fl.w, fl.w.heap[a.cache])
               IN [it |-> fl.it, r |-> Return(l.ref), w |-> l.w]
          ELSE fl

\* Windows.count (_sync.py)
SyncWindowsCount(a, w) ==
  LET u == count(a.it, w)
  IN [it |-> [a EXCEPT !.it = u.it],
      n |-> IF u.exc = "none" THEN Max(0, u.n - 1) ELSE 0, exc |-> u.exc, w |-> u.w]

\* IterInterface.count (_sync.py): for _ in self: ctr += 1
RECURSIVE SyncCount(_, _)
\* one turn of the loop on the result u of next()
SyncCountStep(u) ==
  IF u.r.exists THEN CountOneMore(SyncCount(u.it, u.w))
  ELSE [it |-> u.it, n |-> 0,
        exc |-> IF u.r.exc = "StopIteration" THEN "none" ELSE u.r.exc, w |-> u.w]

SyncCount(a, w) == SyncCountStep(next(a, w))

\* IterInterface.collect (_sync.py): list(self)
RECURSIVE SyncCollect(_, _)
\* one turn of the loop on the result u of next()
SyncCollectStep(u) ==
  IF u.r.exists THEN CollectPrepend(u, SyncCollect(u.it, u.w))
  ELSE [it |-> u.it, lst |-> <<>>,
        exc |-> IF u.r.exc = "StopIteration" THEN "none" ELSE u.r.exc, w |-> u.w]

SyncCollect(a, w) == SyncCollectStep(next(a, w))

\* -------------------------------------------------- _internal.py adapters
\* Map.__init__ (_internal.py)
InternalMap(iter, f) == [cls |-> "Map", fam |-> "internal", it |-> iter, f |-> f]

\* Map.next (_internal.py)
InternalMapNext(a, w) ==
  LET u == next(a.it, w)
  IN IF u.r.exists
     THEN [it |-> [a EXCEPT !.it = u.it], r |-> Return(Apply(a.f, u.r.value)),
           w |-> [u.w EXCEPT !.fcalls = @ + 1]]
     ELSE Propagate(a, u)

\* Filter.__init__ (_internal.py)
InternalFilter(iter, f) == [cls |-> "Filter", fam |-> "internal", it |-> iter, f |-> f]

\* Filter.next (_internal.py)
RECURSIVE InternalFilterNext(_, _)
InternalFilterNext(a, w) ==
  LET u == next(a.it, w)
      a1 == [a EXCEPT !.it = u.it]
      w1 == [u.w EXCEPT !.fcalls = @ + 1]
  IN IF u.r.exists
     THEN IF Holds(a.f, u.r.value)
          THEN [it |-> a1, r |-> Return(u.r.value), w |-> w1]
          ELSE InternalFilterNext(a1, w1)
     ELSE Propagate(a, u)

\* Take.__init__ (_internal.py)
InternalTake(iter, size) ==
  [cls |-> "Take", fam |-> "internal", it |-> iter, size |-> size, taken |-> 0]

\* Take.next counting the call before it asks upstream
InternalTakeNext_CountFirst(a, w) ==
  IF a.taken = a.size
  THEN [it |-> a, r |-> Raise("StopIteration"), w |-> w]
  ELSE LET u == next(a.it, w)
       IN IF u.r.exists
          THEN [it |-> [a EXCEPT !.it = u.it, !.taken = @ + 1],
                r |-> Return(u.r.value), w |-> u.w]
          ELSE [it |-> [a EXCEPT !.it = u.it, !.taken = @ + 1], r |-> u.r, w |-> u.w]

\* Take.next (_internal.py)
InternalTakeNext(a, w) ==
  IF a.taken = a.size
  THEN [it |-> a, r |-> Raise("StopIteration"), w |-> w]
  ELSE LET u == next(a.it, w)
       IN IF u.r.exists
          THEN [it |-> [a EXCEPT !.it = u.it, !.taken = @ + 1],
                r |-> Return(u.r.value), w |-> u.w]
          ELSE Propagate(a, u)

\* Chain.__init__ (_internal.py)
InternalChain(first, second) ==
  [cls |-> "Chain", fam |-> "internal", first |-> first, second |-> second,
   use_second |-> FALSE]

\* Chain.next letting the exhaustion of first through on the call that flips
InternalChainNext_NoDelegate(a, w) ==
  IF a.use_second
  THEN LET v == next(a.second, w)
       IN [it |-> [a EXCEPT !.second = v.it], r |-> v.r, w |-> v.w]
  ELSE LET u == next(a.first, w)
           a1 == [a EXCEPT !.first = u.it]
       IN IF u.r.exc = "StopIteration"
          THEN [it |-> [a1 EXCEPT !.use_second = TRUE], r |-> u.r, w |-> u.w]
          ELSE [it |-> a1, r |-> u.r, w |-> u.w]

\* Chain.next (_internal.py): after the flip it calls self.second.next()
InternalChainNext(a, w) ==
  IF a.use_second
  THEN LET v == next(a.second, w)
       IN [it |-> [a EXCEPT !.second = v.it], r |-> v.r, w |-> v.w]
  ELSE LET u == next(a.first, w)
           a1 == [a EXCEPT !.first = u.it]
       IN IF u.r.exc = "StopIteration"
          THEN LET v == next(a.second, u.w)
               IN [it |-> [a1 EXCEPT !.use_second = TRUE, !.second = v.it],
                   r |-> v.r, w |-> v.w]
          ELSE [it |-> a1, r |-> u.r, w |-> u.w]

\* IterInterface.collect (_internal.py): [item for item in self]
RECURSIVE InternalCollect(_, _)
\* one turn of the loop on the result u of next()
InternalCollectStep(u) ==
  IF u.r.exists THEN CollectPrepend(u, InternalCollect(u.it, u.w))
  ELSE [it |-> u.it, lst |-> <<>>,
        exc |-> IF u.r.exc = "StopIteration" THEN "none" ELSE u.r.exc, w |-> u.w]

InternalCollect(a, w) == InternalCollectStep(next(a, w))

\* IterInterface.count (_internal.py)
RECURSIVE InternalCount(_, _)
\* one turn of the loop on the result u of next()
InternalCountStep(u) ==
  IF u.r.exists THEN CountOneMore(InternalCount(u.it, u.w))
  ELSE [it |-> u.it, n |-> 0,
        exc |-> IF u.r.exc = "StopIteration" THEN "none" ELSE u.r.exc, w |-> u.w]

InternalCount(a, w) == InternalCountStep(next(a, w))

\* Map.count (_internal.py)
InternalMapCount(a, w) ==
  LET u == count(a.it, w)
  IN [it |-> [a EXCEPT !.it = u.it], n |-> u.n, exc |-> u.exc, w |-> u.w]

\* StepBy.__init__ (_sync.py): step_size <= 0 raises ValueError and nothing
\* is built; the adapter passed in is left as it was
SyncStepBy(it, step_size) ==
  IF step_size <= 0
  THEN [exc |-> "ValueError", it |-> it]
  ELSE [exc |-> "none",
        it |-> [cls |-> "StepBy", fam |-> "sync", it |-> it, first_take |-> TRUE,
                step_minus_one |-> step_size - 1]]

\* StepBy.next (_sync.py), lines 523-524: the discard loop, k iterations left
RECURSIVE SyncStepBySkip(_, _, _)
SyncStepBySkip(a, w, k) ==
  IF k <= 0 THEN [it |-> a, r |-> Return(0), w |-> w]
  ELSE LET u == next(a.it, w)
       IN IF u.r.exists
          THEN SyncStepBySkip([a EXCEPT !.it = u.it], u.w, k - 1)
          ELSE Propagate(a, u)

\* StepBy.next discarding before the first item too
SyncStepByNext_SkipFirst(a, w) ==
  LET sk == SyncStepBySkip([a EXCEPT !.first_take = FALSE], w, a.step_minus_one)
  IN IF sk.r.exists
     THEN LET u == next(sk.it.it, sk.w)
          IN IF u.r.exists
             THEN [it |-> [sk.it EXCEPT !.it = u.it], r |-> Return(u.r.value), w |-> u.w]
             ELSE Propagate(sk.it, u)
     ELSE sk

\* StepBy.next (_sync.py)
SyncStepByNext(a, w) ==
  LET sk == IF ~a.first_take
            THEN SyncStepBySkip(a, w, a.step_minus_one)
            ELSE [it |-> [a EXCEPT !.first_take = FALSE], r |-> Return(0), w |-> w]
  IN IF sk.r.exists
     THEN LET u == next(sk.it.it, sk.w)
          IN IF u.r.exists
             THEN [it |-> [sk.it EXCEPT !.it = u.it], r |-> Return(u.r.value), w |-> u.w]
             ELSE Propagate(sk.it, u)
     ELSE sk

\* StepBy.__init__ (_internal.py)
InternalStepBy(iter, step_size) ==
  IF step_size <= 0
  THEN [exc |-> "ValueError", it |-> iter]
  ELSE [exc |-> "none",
        it |-> [cls |-> "StepBy", fam |-> "internal", it |-> iter, first_take |-> TRUE,
                step_minus_one |-> step_size - 1]]

\* StepBy.next (_internal.py), lines 302-303: the discard loop
RECURSIVE InternalStepBySkip(_, _, _)
InternalStepBySkip(a, w, k) ==
  IF k <= 0 THEN [it |-> a, r |-> Return(0), w |-> w]
  ELSE LET u == next(a.it, w)
       IN IF u.r.exists
          THEN InternalStepBySkip([a EXCEPT !.it = u.it], u.w, k - 1)
          ELSE Propagate(a, u)

\* StepBy.next (_internal.py)
InternalStepByNext(a, w) ==
  LET sk == IF ~a.first_take
            THEN InternalStepBySkip(a, w, a.step_minus_one)
            ELSE [it |-> [a EXCEPT !.first_take = FALSE], r |-> Return(0), w |-> w]
  IN IF sk.r.exists
     THEN LET u == next(sk.it.it, sk.w)
          IN IF u.r.exists
             THEN [it |-> [sk.it EXCEPT !.it = u.it], r |-> Return(u.r.value), w |-> u.w]
             ELSE Propagate(sk.it, u)
     ELSE sk

\* FilterMap.__init__ (_sync.py)
SyncFilterMap(it, f) == [cls |-> "FilterMap", fam |-> "sync", it |-> it, f |-> f]

\* FilterMap.next signalling exhaustion at the first item f turns down
SyncFilterMapNext_StopAtAbsent(a, w) ==
  LET u == next(a.it, w)
      a1 == [a EXCEPT !.it = u.it]
      w1 == [u.w EXCEPT !.fcalls = @ + 1]
  IN IF u.r.exists
     THEN IF ApplyMaybe(a.f, u.r.value).exists
          THEN [it |-> a1, r |-> Return(ApplyMaybe(a.f, u.r.value).value), w |-> w1]
          ELSE [it |-> a1, r |-> Raise("StopIteration"), w |-> w1]
     ELSE Propagate(a, u)

\* FilterMap.next (_sync.py): while True, one iteration per unfolding
RECURSIVE SyncFilterMapNext(_, _)
SyncFilterMapNext(a, w) ==
  LET u == next(a.it, w)
      a1 == [a EXCEPT !.it = u.it]
      w1 == [u.w EXCEPT !.fcalls = @ + 1]
  IN IF u.r.exists
     THEN IF ApplyMaybe(a.f, u.r.value).exists
          THEN [it |-> a1, r |-> Return(ApplyMaybe(a.f, u.r.value).value), w |-> w1]
          ELSE SyncFilterMapNext(a1, w1)
     ELSE Propagate(a, u)

\* FilterMap.copy (_sync.py)
SyncFilterMapCopy(a, w) ==
  LET u == copy(a.it, w)
  IN [it |-> [a EXCEPT !.it = u.it], c |-> SyncFilterMap(u.c, a.f), w |-> u.w]

\* Inspect.__init__ (_sync.py); f is the callable or the default printer
SyncInspect(it, f) == [cls |-> "Inspect", fam |-> "sync", it |-> it, f |-> f]

\* Inspect.next (_sync.py): f is called with the item, the item is returned
SyncInspectNext(a, w) ==
  LET u == next(a.it, w)
  IN IF u.r.exists
     THEN [it |-> [a EXCEPT !.it = u.it], r |-> Return(u.r.value),
           w |-> [u.w EXCEPT !.fcalls = @ + 1, !.seen = Append(@, u.r.value)]]
     ELSE Propagate(a, u)

\* Inspect.copy (_sync.py)
SyncInspectCopy(a, w) ==
  LET u == copy(a.it, w)
  IN [it |-> [a EXCEPT !.it = u.it], c |-> SyncInspect(u.c, a.f), w |-> u.w]

\* Enumerate.__init__ (_internal.py)
InternalEnumerate(iter) ==
  [cls |-> "Enumerate", fam |-> "internal", it |-> iter, curr_idx |-> 0]

\* Enumerate.next advancing the counter before it knows an item came
InternalEnumerateNext_CountAlways(a, w) ==
  LET u == next(a.it, w)
  IN IF u.r.exists
     THEN [it |-> [a EXCEPT !.it = u.it, !.curr_idx = @ + 1],
           r |-> Return(<<a.curr_idx, u.r.value>>), w |-> u.w]
     ELSE [it |-> [a EXCEPT !.it = u.it, !.curr_idx = @ + 1], r |-> u.r, w |-> u.w]

\* Enumerate.next (_internal.py)
InternalEnumerateNext(a, w) ==
  LET u == next(a.it, w)
  IN IF u.r.exists
     THEN [it |-> [a EXCEPT !.it = u.it, !.curr_idx = @ + 1],
           r |-> Return(<<a.curr_idx, u.r.value>>), w |-> u.w]
     ELSE Propagate(a, u)

\* Enumerate.count (_internal.py)
InternalEnumerateCount(a, w) ==
  LET u == count(a.it, w)
  IN [it |-> [a EXCEPT !.it = u.it], n |-> u.n, exc |-> u.exc, w |-> u.w]

\* FilterMap.__init__ (_internal.py)
InternalFilterMap(iter, f) ==
  [cls |-> "FilterMap", fam |-> "internal", it |-> iter, f |-> f]

\* FilterMap.next (_internal.py)
RECURSIVE InternalFilterMapNext(_, _)
InternalFilterMapNext(a, w) ==
  LET u == next(a.it, w)
      a1 == [a EXCEPT !.it = u.it]
      w1 == [u.w EXCEPT !.fcalls = @ + 1]
  IN IF u.r.exists
     THEN IF ApplyMaybe(a.f, u.r.value).exists
          THEN [it |-> a1, r |-> Return(ApplyMaybe(a.f, u.r.value).value), w |-> w1]
          ELSE InternalFilterMapNext(a1, w1)
     ELSE Propagate(a, u)

\* Inspect.__init__ (_internal.py)
InternalInspect(iter, f) == [cls |-> "Inspect", fam |-> "internal", it |-> iter, f |-> f]

\* Inspect.next returning the item without calling f
InternalInspectNext_Silent(a, w) ==
  LET u == next(a.it, w)
  IN IF u.r.exists
     THEN [it |-> [a EXCEPT !.it = u.it], r |-> Return(u.r.value), w |-> u.w]
     ELSE Propagate(a, u)

\* Inspect.next (_internal.py)
InternalInspectNext(a, w) ==
  LET u == next(a.it, w)
  IN IF u.r.exists
     THEN [it |-> [a EXCEPT !.it = u.it], r |-> Return(u.r.value),
           w |-> [u.w EXCEPT !.fcalls = @ + 1, !.seen = Append(@, u.r.value)]]
     ELSE Propagate(a, u)

\* ------------------------------------------------------ copy() overrides
\* Every copy(a, w) returns [it |-> a after the call, c |-> the copy, w].

\* Map.copy (iter.py)
IterMapCopy(a, w) ==
  LET u == copy(a.it, w)
  IN [it |-> [a EXCEPT !.it = u.it], c |-> IterMap(u.c, a.f), w |-> u.w]

\* Filter.copy (iter.py)
IterFilterCopy(a, w) ==
  LET u == copy(a.it, w)
  IN [it |-> [a EXCEPT !.it = u.it], c |-> IterFilter(u.c, a.f), w |-> u.w]

\* Cycle.copy (iter.py): Cycle(self.iter.copy()); the new orig is the copy of
\* the working iterator, not a copy of self.orig
IterCycleCopy(a, w) ==
  LET u == copy(a.it, w)
      k == IterCycle(u.c, u.w)
  IN [it |-> [a EXCEPT !.it = u.it], c |-> k.it, w |-> k.w]

\* Enumerate.copy (iter.py): Enumerate(self.iter.copy()); curr_item is not
\* carried over
IterEnumerateCopy(a, w) ==
  LET u == copy(a.it, w)
  IN [it |-> [a EXCEPT !.it = u.it], c |-> IterEnumerate(u.c), w |-> u.w]

\* Map.copy (_sync.py)
SyncMapCopy(a, w) ==
  LET u == copy(a.it, w)
  IN [it |-> [a EXCEPT !.it = u.it], c |-> SyncMap(u.c, a.f), w |-> u.w]

\* Filter.copy (_sync.py)
SyncFilterCopy(a, w) ==
  LET u == copy(a.it, w)
  IN [it |-> [a EXCEPT !.it = u.it], c |-> SyncFilter(u.c, a.f), w |-> u.w]

\* Enumerate.copy (_sync.py): carries curr_idx
SyncEnumerateCopy(a, w) ==
  LET u == copy(a.it, w)
  IN [it |-> [a EXCEPT !.it = u.it],
      c |-> [SyncEnumerate(u.c) EXCEPT !.curr_idx = a.curr_idx], w |-> u.w]

\* Take.copy building a fresh Take, taken = 0
SyncTakeCopy_Restart(a, w) ==
  LET u == copy(a.it, w)
  IN [it |-> [a EXCEPT !.it = u.it], c |-> SyncTake(u.c, a.size), w |-> u.w]

\* Take.copy (_sync.py): carries taken
SyncTakeCopy(a, w) ==
  LET u == copy(a.it, w)
  IN [it |-> [a EXCEPT !.it = u.it],
      c |-> [SyncTake(u.c, a.size) EXCEPT !.taken = a.taken], w |-> u.w]

\* StepBy.copy (_sync.py): carries first_take
SyncStepByCopy(a, w) ==
  LET u == copy(a.it, w)
  IN [it |-> [a EXCEPT !.it = u.it],
      c |-> [SyncStepBy(u.c, a.step_minus_one + 1).it EXCEPT !.first_take = a.first_take],
      w |-> u.w]

\* Chain.copy (_sync.py): copies both operands, carries use_second
SyncChainCopy(a, w) ==
  LET u == copy(a.first, w)
      v == copy(a.second, u.w)
  IN [it |-> [a EXCEPT !.first = u.it, !.second = v.it],
      c |-> [SyncChain(u.c, v.c) EXCEPT !.use_second = a.use_second], w |-> v.w]

\* CycleCached.copy (_sync.py): obj.cache = self.cache, the same list object
SyncCycleCachedCopy(a, w) ==
  LET u == copy(a.it, w)
      k == SyncCycleCached(u.c, u.w)
  IN [it |-> [a EXCEPT !.it = u.it],
      c |-> [k.it EXCEPT !.cache = a.cache, !.ptr = a.ptr, !.use_cache = a.use_cache],
      w |-> k.w]

\* CycleCopy.copy (_sync.py): CycleCopy(self.it.copy()), then orig is replaced
\* by a copy of self.orig
SyncCycleCopyCopy(a, w) ==
  LET u == copy(a.it, w)
      k == SyncCycleCopy(u.c, u.w)
      o == copy(a.orig, k.w)
  IN [it |-> [a EXCEPT !.it = u.it, !.orig = o.it],
      c |-> [k.it EXCEPT !.orig = o.c], w |-> o.w]

\* Windows.copy (_sync.py): obj.cache = self.cache[::], a new list
SyncWindowsCopy(a, w) ==
  LET u == copy(a.it, w)
      k == SyncWindows(u.c, a.size, u.w)
      l == Alloc(k.w, k.w.heap[a.cache])
  IN [it |-> [a EXCEPT !.it = u.it],
      c |-> [k.it EXCEPT !.cache = l.ref, !.ptr = a.ptr], w |-> l.w]

\* ------------------------------------------- advance_by, nth and last
\* advance_by returns [it, exc, w] (it is self, the object returned); nth and
\* last return [it, r, w].

\* IterInterface.advance_by (iter.py), lines 17-20: the loop, k rounds left
RECURSIVE IterAdvanceByLoop(_, _, _)
\* one turn of the loop on the result u of next(), k turns left
IterAdvanceByStep(u, k) ==
  IF u.r.exists THEN IterAdvanceByLoop(u.it, u.w, k - 1)
  ELSE [it |-> u.it, exc |-> "none", w |-> u.w]

IterAdvanceByLoop(a, w, k) ==
  IF k <= 0 THEN [it |-> a, exc |-> "none", w |-> w]
  ELSE IterAdvanceByStep(next(a, w), k)

\* IterInterface.advance_by (iter.py)
IterAdvanceBy(a, w, n) ==
  IF n < 0 THEN [it |-> a, exc |-> "ValueError", w |-> w]
  ELSE IterAdvanceByLoop(a, w, n)

\* IterInterface.nth (iter.py), lines 59-63: the loop returns the absent item
\* itself; only a loop that ran to its end is followed by one more next()
RECURSIVE IterNthLoop(_, _, _)
\* one turn of the loop on the result u of next(), k turns left
IterNthStep(u, k) ==
  IF k <= 0 THEN u
  ELSE IF u.r.exists THEN IterNthLoop(u.it, u.w, k - 1) ELSE u

IterNthLoop(a, w, k) == IterNthStep(next(a, w), k)

\* IterInterface.nth (iter.py)
IterNth(a, w, n) ==
  IF n < 0 THEN [it |-> a, r |-> Raise("ValueError"), w |-> w]
  ELSE IterNthLoop(a, w, n)

\* IterInterface.last (iter.py), lines 46-47: the while loop
RECURSIVE IterLastLoop(_, _, _)
\* one turn of the loop on the result u of next()
IterLastStep(u, latest) ==
  IF u.r.exists THEN IterLastLoop(u.it, u.w, u.r)
  ELSE [it |-> u.it, r |-> latest, w |-> u.w]

IterLastLoop(a, w, latest) == IterLastStep(next(a, w), latest)

\* IterInterface.last (iter.py)
IterLast(a, w) == IterLastLoop(a, w, NoValue)

\* IterInterface.advance_by (_sync.py), lines 50-54: only StopIteration is
\* caught; any other exception leaves the method
RECURSIVE SyncAdvanceByLoop(_, _, _)
\* one turn of the loop on the result u of next(), k turns left
SyncAdvanceByStep(u, k) ==
  IF u.r.exists THEN SyncAdvanceByLoop(u.it, u.w, k - 1)
  ELSE [it |-> u.it,
        exc |-> IF u.r.exc = "StopIteration" THEN "none" ELSE u.r.exc,
        w |-> u.w]

SyncAdvanceByLoop(a, w, k) ==
  IF k <= 0 THEN [it |-> a, exc |-> "none", w |-> w]
  ELSE SyncAdvanceByStep(next(a, w), k)

\* advance_by without the test of n
SyncAdvanceBy_NoCheck(a, w, n) == SyncAdvanceByLoop(a, w, n)

\* IterInterface.advance_by (_sync.py)
SyncAdvanceBy(a, w, n) ==
  IF n < 0 THEN [it |-> a, exc |-> "ValueError", w |-> w]
  ELSE SyncAdvanceByLoop(a, w, n)

\* IterInterface.nth (_sync.py): self.advance_by(n).next()
SyncNthAfter(adv) ==
  IF adv.exc # "none" THEN [it |-> adv.it, r |-> Raise(adv.exc), w |-> adv.w]
  ELSE next(adv.it, adv.w)

SyncNth(a, w, n) == SyncNthAfter(SyncAdvanceBy(a, w, n))

\* IterInterface.last (_sync.py), lines 111-112: for item in self
RECURSIVE SyncLastLoop(_, _, _)
\* one turn of the loop on the result u of next()
SyncLastStep(u, latest) ==
  IF u.r.exists THEN SyncLastLoop(u.it, u.w, u.r)
  ELSE IF u.r.exc = "StopIteration" THEN [it |-> u.it, r |-> latest, w |-> u.w]
  ELSE u

SyncLastLoop(a, w, latest) == SyncLastStep(next(a, w), latest)

\* IterInterface.last (_sync.py): last = self.next() comes first, outside any
\* try, so the StopIteration of an exhausted adapter leaves the method
SyncLastFirst(u) == IF u.r.exists THEN SyncLastLoop(u.it, u.w, u.r) ELSE u

SyncLast(a, w) == SyncLastFirst(next(a, w))

\* IterInterface.advance_by (_internal.py), lines 42-46
RECURSIVE InternalAdvanceByLoop(_, _, _)
\* one turn of the loop on the result u of next(), k turns left
InternalAdvanceByStep(u, k) ==
  IF u.r.exists THEN InternalAdvanceByLoop(u.it, u.w, k - 1)
  ELSE [it |-> u.it,
        exc |-> IF u.r.exc = "StopIteration" THEN "none" ELSE u.r.exc,
        w |-> u.w]

InternalAdvanceByLoop(a, w, k) ==
  IF k <= 0 THEN [it |-> a, exc |-> "none", w |-> w]
  ELSE InternalAdvanceByStep(next(a, w), k)

\* IterInterface.advance_by (_internal.py)
InternalAdvanceBy(a, w, n) ==
  IF n < 0 THEN [it |-> a, exc |-> "ValueError", w |-> w]
  ELSE InternalAdvanceByLoop(a, w, n)

\* IterInterface.nth (_internal.py): Value(self.advance_by(n).next()), and
\* NoValue() when StopIteration is caught
InternalNthWrap(u) ==
  IF u.r.exists THEN [it |-> u.it, r |-> Value(u.r.value), w |-> u.w]
  ELSE IF u.r.exc = "StopIteration" THEN [it |-> u.it, r |-> NoValue, w |-> u.w]
  ELSE u

InternalNthAfter(adv) ==
  IF adv.exc # "none" THEN [it |-> adv.it, r |-> Raise(adv.exc), w |-> adv.w]
  ELSE InternalNthWrap(next(adv.it, adv.w))

InternalNth(a, w, n) == InternalNthAfter(InternalAdvanceBy(a, w, n))

\* IterInterface.last (_internal.py), lines 91-92: for item in self
RECURSIVE InternalLastLoop(_, _, _)
\* one turn of the loop on the result u of next()
InternalLastStep(u, latest) ==
  IF u.r.exists THEN InternalLastLoop(u.it, u.w, Value(u.r.value))
  ELSE IF u.r.exc = "StopIteration" THEN [it |-> u.it, r |-> latest, w |-> u.w]
  ELSE u

InternalLastLoop(a, w, latest) == InternalLastStep(next(a, w), latest)

\* IterInterface.last (_internal.py)
InternalLast(a, w) == InternalLastLoop(a, w, NoValue)

\* --------------------------------------------- can_be_copied and cycle
RECURSIVE can_be_copied(_)

\* Chain.can_be_copied asking the first operand only
SyncChainCanBeCopied_FirstOnly(a) == can_be_copied(a.first)

\* Chain.can_be_copied (_sync.py)
SyncChainCanBeCopied(a) == can_be_copied(a.first) /\ can_be_copied(a.second)

\* a.can_be_copied(): the method of a's class (_sync.py)
can_be_copied(a) ==
  CASE a.cls = "Iter" -> RootCanBeCopied(a)
    [] a.cls = "Chain" -> SyncChainCanBeCopied(a)
    \* every other class: return self.it.can_be_copied()
    [] OTHER -> can_be_copied(a.it)

\* IterInterface.cycle (_sync.py)
SyncCycle(a, w) ==
  IF can_be_copied(a) THEN SyncCycleCopy(a, w) ELSE SyncCycleCached(a, w)

\* ------------------------------------------------------- method dispatch
\* a.next(): the next method of a's class
next(a, w) ==
  CASE a.cls = "Iter" -> IF a.fam = "iter" THEN IterNext(a, w) ELSE RootNext(a, w)
    [] a.cls = "Map" ->
         IF a.fam = "iter" THEN IterMapNext(a, w)
         ELSE IF a.fam = "sync" THEN SyncMapNext(a, w) ELSE InternalMapNext(a, w)
    [] a.cls = "Filter" ->
         IF a.fam = "iter" THEN IterFilterNext(a, w)
         ELSE IF a.fam = "sync" THEN SyncFilterNext(a, w) ELSE InternalFilterNext(a, w)
    [] a.cls = "Enumerate" ->
         IF a.fam = "iter" THEN IterEnumerateNext(a, w)
         ELSE IF a.fam = "sync" THEN SyncEnumerateNext(a, w)
         ELSE InternalEnumerateNext(a, w)
    [] a.cls = "FilterMap" ->
         IF a.fam = "sync" THEN SyncFilterMapNext(a, w) ELSE InternalFilterMapNext(a, w)
    [] a.cls = "Inspect" ->
         IF a.fam = "sync" THEN SyncInspectNext(a, w) ELSE InternalInspectNext(a, w)
    [] a.cls = "Take" ->
         IF a.fam = "sync" THEN SyncTakeNext(a, w) ELSE InternalTakeNext(a, w)
    [] a.cls = "Chain" ->
         IF a.fam = "sync" THEN SyncChainNext(a, w) ELSE InternalChainNext(a, w)
    [] a.cls = "StepBy" ->
         IF a.fam = "sync" THEN SyncStepByNext(a, w) ELSE InternalStepByNext(a, w)
    [] a.cls = "Cycle" -> IterCycleNext(a, w)
    [] a.cls = "CycleCopy" -> SyncCycleCopyNext(a, w)
    [] a.cls = "CycleCached" -> SyncCycleCachedNext(a, w)
    [] a.cls = "Windows" -> SyncWindowsNext(a, w)

\* a.copy(): the copy method of a's class
copy(a, w) ==
  CASE a.cls = "Iter" -> IF a.fam = "iter" THEN IterCopy(a, w) ELSE RootCopy(a, w)
    [] a.cls = "Map" -> IF a.fam = "iter" THEN IterMapCopy(a, w) ELSE SyncMapCopy(a, w)
    [] a.cls = "Filter" ->
         IF a.fam = "iter" THEN IterFilterCopy(a, w) ELSE SyncFilterCopy(a, w)
    [] a.cls = "Enumerate" ->
         IF a.fam = "iter" THEN IterEnumerateCopy(a, w) ELSE SyncEnumerateCopy(a, w)
    [] a.cls = "FilterMap" -> SyncFilterMapCopy(a, w)
    [] a.cls = "Inspect" -> SyncInspectCopy(a, w)
    [] a.cls = "Cycle" -> IterCycleCopy(a, w)
    [] a.cls = "Take" -> SyncTakeCopy(a, w)
    [] a.cls = "StepBy" -> SyncStepByCopy(a, w)
    [] a.cls = "Chain" -> SyncChainCopy(a, w)
    [] a.cls = "CycleCached" -> SyncCycleCachedCopy(a, w)
    [] a.cls = "CycleCopy" -> SyncCycleCopyCopy(a, w)
    [] a.cls = "Windows" -> SyncWindowsCopy(a, w)

\* a.advance_by(n), a.nth(n), a.last(): no class overrides them
advance_by(a, w, n) ==
  IF a.fam = "iter" THEN IterAdvanceBy(a, w, n)
  ELSE IF a.fam = "sync" THEN SyncAdvanceBy(a, w, n) ELSE InternalAdvanceBy(a, w, n)

nth(a, w, n) ==
  IF a.fam = "iter" THEN IterNth(a, w, n)
  ELSE IF a.fam = "sync" THEN SyncNth(a, w, n) ELSE InternalNth(a, w, n)

last_(a, w) ==
  IF a.fam = "iter" THEN IterLast(a, w)
  ELSE IF a.fam = "sync" THEN SyncLast(a, w) ELSE InternalLast(a, w)

\* a.count(): the override of a's class, or the default of its interface
count(a, w) ==
  CASE a.cls = "Map" ->
         IF a.fam = "iter" THEN IterMapCount(a, w)
         ELSE IF a.fam = "sync" THEN SyncMapCount(a, w) ELSE InternalMapCount(a, w)
    [] a.cls = "Enumerate" ->
         IF a.fam = "iter" THEN IterEnumerateCount(a, w)
         ELSE IF a.fam = "sync" THEN SyncEnumerateCount(a, w)
         ELSE InternalEnumerateCount(a, w)
    [] a.cls = "Windows" -> SyncWindowsCount(a, w)
    [] OTHER ->
         IF a.fam = "iter" THEN IterCount(a, w)
         ELSE IF a.fam = "sync" THEN SyncCount(a, w) ELSE InternalCount(a, w)

\* a.collect()
collect(a, w) ==
  IF a.fam = "iter" THEN IterCollect(a, w)
  ELSE IF a.fam = "sync" THEN SyncCollect(a, w) ELSE InternalCollect(a, w)

\* ------------------- for_each, collect_into, all, any and try_sum
\* Each returns [it, lst, exc, w] as collect does, lst being the value
\* returned ("None" where Python returns None or raises).

\* what Python type the items of a are: Windows.next returns a list,
\* Enumerate.next a tuple (index, item); the other adapters hand on what
\* they are given, or the int their callable returns
RECURSIVE ItemKind(_)
ItemKind(a) ==
  CASE a.cls = "Windows" -> "list"
    [] a.cls = "Enumerate" -> "tuple"
    [] a.cls \in {"Iter", "Map", "FilterMap"} -> "int"
    [] a.cls = "Chain" -> ItemKind(a.first)
    [] OTHER -> ItemKind(a.it)

\* hash(v) is defined for an item v of a: a list has no hash, and neither has
\* a tuple that holds one
RECURSIVE Hashable(_)
Hashable(a) ==
  CASE a.cls = "Windows" -> FALSE
    [] a.cls \in {"Iter", "Map", "FilterMap"} -> TRUE
    [] a.cls = "Chain" -> Hashable(a.first)
    [] OTHER -> Hashable(a.it)

\* bool(v) for an item v of a: a list is true unless empty, a tuple of two
\* is true, an int is true unless 0
Truthy(a, w, v) ==
  CASE ItemKind(a) = "list" -> w.heap[v] # <<>>
    [] ItemKind(a) = "tuple" -> TRUE
    [] OTHER -> v # 0

\* summed += item for items of a: a list is extended in place, a tuple is
\* replaced by the concatenation, an int by the sum
Added(a, w, summed, item) ==
  CASE ItemKind(a) = "list" ->
         [val |-> summed, w |-> [w EXCEPT !.heap[summed] = @ \o w.heap[item]]]
    [] ItemKind(a) = "tuple" -> [val |-> summed \o item, w |-> w]
    [] OTHER -> [val |-> summed + item, w |-> w]

\* IterInterface.for_each (_sync.py; _internal.py lines 82-84 are the same):
\* for item in self: f(item), with a callable f that leaves the pipeline alone
for_each(a, w) == [collect(a, w) EXCEPT !.lst = "None"]

\* the classes collect_into accepts
Factories == {"list", "tuple", "set", "frozenset"}

\* IterInterface.collect_into (_sync.py: factory(self); _internal.py lines
\* 64-65: factory(item for item in self)). set and frozenset hash every item
\* as it comes, and a list, or a tuple holding one, has no hash: TypeError at
\* the first item
collect_into(a, w, factory) ==
  IF factory \in {"list", "tuple"} THEN collect(a, w)
  ELSE IF Hashable(a)
       THEN [collect(a, w) EXCEPT !.lst = {@[i] : i \in 1..Len(@)}]
       ELSE LET u == next(a, w)
            IN [it |-> u.it, lst |-> IF u.r.exists THEN "None" ELSE {},
                exc |-> IF u.r.exists THEN "TypeError"
                        ELSE IF u.r.exc = "StopIteration" THEN "none" ELSE u.r.exc,
                w |-> u.w]

\* IterInterface.all (_sync.py): all(self) stops at the first false item
RECURSIVE SyncAll(_, _)
\* one turn of the loop on the result u of next()
SyncAllStep(u) ==
  IF u.r.exists
  THEN IF Truthy(u.it, u.w, u.r.value) THEN SyncAll(u.it, u.w)
       ELSE [it |-> u.it, lst |-> FALSE, exc |-> "none", w |-> u.w]
  ELSE [it |-> u.it, lst |-> IF u.r.exc = "StopIteration" THEN TRUE ELSE "None",
        exc |-> IF u.r.exc = "StopIteration" THEN "none" ELSE u.r.exc, w |-> u.w]

SyncAll(a, w) == SyncAllStep(next(a, w))

\* IterInterface.any (_sync.py): any(self) stops at the first true item
RECURSIVE SyncAny(_, _)
\* one turn of the loop on the result u of next()
SyncAnyStep(u) ==
  IF u.r.exists
  THEN IF Truthy(u.it, u.w, u.r.value)
       THEN [it |-> u.it, lst |-> TRUE, exc |-> "none", w |-> u.w]
       ELSE SyncAny(u.it, u.w)
  ELSE [it |-> u.it, lst |-> IF u.r.exc = "StopIteration" THEN FALSE ELSE "None",
        exc |-> IF u.r.exc = "StopIteration" THEN "none" ELSE u.r.exc, w |-> u.w]

SyncAny(a, w) == SyncAnyStep(next(a, w))

\* IterInterface.try_sum (_sync.py), lines 129-132: the loop, on what was
\* summed so far (s.val, in the world s.w) and the result u of next()
RECURSIVE SyncTrySumLoop(_, _)
SyncTrySumLoop(s, u) ==
  IF u.r.exists
  THEN SyncTrySumLoop(Added(u.it, u.w, s.val, u.r.value),
                      next(u.it, Added(u.it, u.w, s.val, u.r.value).w))
  ELSE [it |-> u.it, lst |-> IF u.r.exc = "StopIteration" THEN s.val ELSE "None",
        exc |-> IF u.r.exc = "StopIteration" THEN "none" ELSE u.r.exc, w |-> u.w]

\* line 128: summed = self.next(), which raises StopIteration on a pipeline
\* that has nothing left
SyncTrySumFirst(u) ==
  IF u.r.exists THEN SyncTrySumLoop([val |-> u.r.value, w |-> u.w], next(u.it, u.w))
  ELSE [it |-> u.it, lst |-> "None", exc |-> u.r.exc, w |-> u.w]

SyncTrySum(a, w) == SyncTrySumFirst(next(a, w))

\* ------------------------------------------------------------ pipelines
\* What the consumer builds: one adapter over root(S) (Chain: over root(S)
\* and root(T)); f is the callable, n the size given to Take or Windows.
Cfg(fam, cls, S, T, f, n) ==
  [fam |-> fam, cls |-> cls, S |-> S, T |-> T, f |-> f, n |-> n]

ChainSources == {s \in Sources : Len(s) <= MaxChain}

Pipelines ==
  {Cfg(fam, "Map", S, <<>>, f, 0) :
     fam \in {"iter", "sync", "internal"}, S \in Sources, f \in Funcs}
  \cup {Cfg(fam, "Enumerate", S, <<>>, "-", 0) :
          fam \in {"iter", "sync", "internal"}, S \in Sources}
  \cup {Cfg(fam, "FilterMap", S, <<>>, f, 0) :
          fam \in {"sync", "internal"}, S \in Sources, f \in FilterMaps}
  \cup {Cfg(fam, "Inspect", S, <<>>, "print", 0) :
          fam \in {"sync", "internal"}, S \in Sources}
  \cup {Cfg(fam, "Filter", S, <<>>, f, 0) :
          fam \in {"iter", "sync", "internal"}, S \in Sources, f \in Preds}
  \cup {Cfg(fam, "Take", S, <<>>, "-", n) :
          fam \in {"sync", "internal"}, S \in Sources, n \in 0..MaxSize}
  \cup {Cfg(fam, "Chain", S, T, "-", 0) :
          fam \in {"sync", "internal"}, S \in ChainSources, T \in ChainSources}
  \cup {Cfg("iter", "Cycle", S, <<>>, "-", 0) : S \in Sources}
  \cup {Cfg("sync", cls, S, <<>>, "-", 0) :
          cls \in {"CycleCopy", "CycleCached"}, S \in Sources}
  \cup {Cfg("sync", "Windows", S, <<>>, "-", n) : S \in Sources, n \in -1..MaxSize}
  \cup {Cfg(fam, "StepBy", S, <<>>, "-", n) :
          fam \in {"sync", "internal"}, S \in Sources, n \in -1..MaxSize}

\* root(S) of a family
RootOf(fam, S) == IF fam = "iter" THEN Iter(S) ELSE Root(fam, S)

\* the constructor calls that build the pipeline c over the given root and,
\* for Chain, the given second operand
BuildOver(c, root, second) ==
  LET plain(a) == [it |-> a, w |-> World0, exc |-> "none"]
      built(b) == [it |-> b.it, w |-> b.w, exc |-> "none"]
      tried(b) == [it |-> b.it, w |-> World0, exc |-> b.exc]
  IN CASE c.cls = "Map" ->
            plain(IF c.fam = "iter" THEN IterMap(root, c.f)
                  ELSE IF c.fam = "sync" THEN SyncMap(root, c.f)
                  ELSE InternalMap(root, c.f))
       [] c.cls = "Enumerate" ->
            plain(IF c.fam = "iter" THEN IterEnumerate(root)
                  ELSE IF c.fam = "sync" THEN SyncEnumerate(root)
                  ELSE InternalEnumerate(root))
       [] c.cls = "FilterMap" ->
            plain(IF c.fam = "sync" THEN SyncFilterMap(root, c.f)
                  ELSE InternalFilterMap(root, c.f))
       [] c.cls = "Inspect" ->
            plain(IF c.fam = "sync" THEN SyncInspect(root, c.f)
                  ELSE InternalInspect(root, c.f))
       [] c.cls = "Filter" ->
            plain(IF c.fam = "iter" THEN IterFilter(root, c.f)
                  ELSE IF c.fam = "sync" THEN SyncFilter(root, c.f)
                  ELSE InternalFilter(root, c.f))
       [] c.cls = "Take" ->
            plain(IF c.fam = "sync" THEN SyncTake(root, c.n) ELSE InternalTake(root, c.n))
       [] c.cls = "Chain" ->
            plain(IF c.fam = "sync" THEN SyncChain(root, second)
                  ELSE InternalChain(root, second))
       [] c.cls = "Cycle" -> built(IterCycle(root, World0))
       [] c.cls = "CycleCopy" -> built(SyncCycleCopy(root, World0))
       [] c.cls = "CycleCached" -> built(SyncCycleCached(root, World0))
       [] c.cls = "Windows" -> built(SyncWindows(root, c.n, World0))
       [] c.cls = "StepBy" ->
            tried(IF c.fam = "sync" THEN SyncStepBy(root, c.n)
                  ELSE InternalStepBy(root, c.n))

\* the pipeline c over roots that can be copied
Build(c) == BuildOver(c, RootOf(c.fam, c.S), RootOf(c.fam, c.T))

\* --------------------------------------------------------- state machine
\* A constructor that raised leaves op = "failed" and last the exception; it
\* is then the adapter that was passed to the constructor.
VARIABLES
  it,       \* the outermost adapter, with everything it owns
  world,    \* the heap of lists and the call counters
  cfg,      \* how the pipeline was built (never changes)
  out,      \* the values returned by the consumer's next() calls, in order
  last,     \* the result of the latest next() call
  calls,    \* number of next() calls the consumer has made
  op,       \* "new", "next", or the terminal operation that ended the run
  ret,      \* what collect() or count() returned
  mutated,  \* indices into out of the windows the consumer has written to
  cpy       \* the adapter returned by it.copy(), once the consumer has called it

vars == <<it, world, cfg, out, last, calls, op, ret, mutated, cpy>>

\* What the consumer sees of one next() call: whether a value came, the
\* exception if one was raised, and the value (for Windows the contents, at
\* the time of the return, of the list returned).
Obs(r, w, c) ==
  [exists |-> r.exists, exc |-> r.exc,
   value |-> IF r.exists /\ c.cls = "Windows" THEN w.heap[r.value] ELSE r.value]

SameObs(x, y) ==
  /\ x.exists = y.exists
  /\ x.exc = y.exc
  /\ x.exists => x.value = y.value

\* what n next() calls on a, and on nothing else, are seen to return
RECURSIVE Drive(_, _, _, _)
Drive(a, w, c, n) ==
  IF n = 0 THEN <<>>
  ELSE LET res == next(a, w)
       IN <<Obs(res.r, res.w, c)>> \o Drive(res.it, res.w, c, n - 1)

IsCycle(c) == c.cls \in {"Cycle", "CycleCopy", "CycleCached"}

\* pipelines that never signal exhaustion: draining them does not return
Endless(c) ==
  \/ IsCycle(c) /\ c.S # <<>>
  \/ c.cls = "Windows" /\ c.n < 0

Init ==
  \E c \in Pipelines :
    /\ cfg = c
    /\ it = Build(c).it
    /\ world = Build(c).w
    /\ out = <<>>
    /\ last = Raise(IF Build(c).exc = "none" THEN "nothing yet" ELSE Build(c).exc)
    /\ calls = 0
    /\ op = IF Build(c).exc = "none" THEN "new" ELSE "failed"
    /\ ret = [val |-> 0, exc |-> "none"]
    /\ mutated = {}
    /\ cpy = [made |-> FALSE]

\* the consumer calls next() on the pipeline
CallNext ==
  /\ op \in {"new", "next"}
  /\ calls < MaxCalls
  /\ cpy.made => Len(cpy.outA) < MaxAfter
  /\ LET res == next(it, world)
     IN /\ it' = res.it
        /\ world' = res.w
        /\ last' = res.r
        /\ out' = IF res.r.exists THEN Append(out, res.r.value) ELSE out
        /\ cpy' = IF cpy.made
                  THEN [cpy EXCEPT !.outA = Append(@, Obs(res.r, res.w, cfg))]
                  ELSE cpy
  /\ calls' = calls + 1
  /\ op' = "next"
  /\ UNCHANGED <<cfg, ret, mutated>>

\* the consumer calls collect(); on an endless pipeline the call does not
\* return, so there is no step for it
CallCollect ==
  /\ op \in {"new", "next"}
  /\ ~Endless(cfg)
  /\ LET res == collect(it, world)
     IN /\ it' = res.it
        /\ world' = res.w
        /\ ret' = [val |-> res.lst, exc |-> res.exc]
  /\ op' = "collect"
  /\ UNCHANGED <<cfg, out, last, calls, mutated, cpy>>

\* the consumer calls count(). The count of a cycle over items drains it and
\* does not return; Windows.count does not drain through next and returns
\* whatever the size
CallCount ==
  /\ op \in {"new", "next"}
  /\ ~(IsCycle(cfg) /\ cfg.S # <<>>)
  /\ LET res == count(it, world)
     IN /\ it' = res.it
        /\ world' = res.w
        /\ ret' = [val |-> res.n, exc |-> res.exc]
  /\ op' = "count"
  /\ UNCHANGED <<cfg, out, last, calls, mutated, cpy>>

\* a terminal operation other than collect and count returned res: ret.val
\* is what it returned, ret.kind the class of a collect_into result
Terminal(res, name, kind) ==
  /\ it' = res.it
  /\ world' = res.w
  /\ ret' = [val |-> res.lst, exc |-> res.exc, kind |-> kind]
  /\ op' = name
  /\ UNCHANGED <<cfg, out, last, calls, mutated, cpy>>

\* the consumer calls for_each(f); iter.py has no such method
CallForEach ==
  /\ op \in {"new", "next"}
  /\ cfg.fam \in {"sync", "internal"}
  /\ ~Endless(cfg)
  /\ Terminal(for_each(it, world), "for_each", "-")

\* the consumer calls collect_into(factory). On an endless pipeline the call
\* returns only where the first item ends it with TypeError
CallCollectInto ==
  /\ op \in {"new", "next"}
  /\ cfg.fam \in {"sync", "internal"}
  /\ \E factory \in Factories :
       /\ Endless(cfg) => (factory \in {"set", "frozenset"} /\ ~Hashable(it))
       /\ Terminal(collect_into(it, world, factory), "collect_into", factory)

\* the consumer calls all(), a method of _sync.py only. The items of a
\* source are true, so all() of a cycle over items does not return; the
\* windows of a negative size are empty lists, so all() ends at the first
CallAll ==
  /\ op \in {"new", "next"}
  /\ cfg.fam = "sync"
  /\ ~(IsCycle(cfg) /\ cfg.S # <<>>)
  /\ Terminal(SyncAll(it, world), "all", "-")

\* the consumer calls any(), a method of _sync.py only. any() of a cycle
\* over items ends at the first; over the empty windows of a negative size
\* it does not return
CallAny ==
  /\ op \in {"new", "next"}
  /\ cfg.fam = "sync"
  /\ ~(cfg.cls = "Windows" /\ cfg.n < 0)
  /\ Terminal(SyncAny(it, world), "any", "-")

\* the consumer calls try_sum(), a method of _sync.py only
CallTrySum ==
  /\ op \in {"new", "next"}
  /\ cfg.fam = "sync"
  /\ ~Endless(cfg)
  /\ Terminal(SyncTrySum(it, world), "try_sum", "-")

\* the consumer writes into a list that Windows.next returned to it
MutateWindow ==
  /\ op = "next"
  /\ cfg.cls = "Windows"
  /\ \E i \in 1..Len(out) :
       /\ i \notin mutated
       /\ world.heap[out[i]] # <<>>
       /\ world' = [world EXCEPT !.heap[out[i]][1] = Marker]
       /\ mutated' = mutated \cup {i}
  /\ UNCHANGED <<it, cfg, out, last, calls, op, ret, cpy>>

\* Enumerate.__next__ (iter.py), u being what self.next() gave: the value of
\* the option, or StopIteration where there is none
IterEnumerateDunderNext(u) ==
  IF u.r.exists THEN u ELSE [u EXCEPT !.r = Raise("StopIteration")]

\* the consumer calls it.__next__(), as a for loop over the adapter does. In
\* iter.py only Enumerate defines it; in _sync.py and _internal.py it is
\* return self.next(), which is CallNext
CallDunderNext ==
  /\ op \in {"new", "next"}
  /\ calls < MaxCalls
  /\ cfg.fam = "iter" /\ it.cls = "Enumerate"
  /\ LET res == IterEnumerateDunderNext(next(it, world))
     IN /\ it' = res.it
        /\ world' = res.w
        /\ last' = res.r
        /\ out' = IF res.r.exists THEN Append(out, res.r.value) ELSE out
  /\ calls' = calls + 1
  /\ op' = "next"
  /\ UNCHANGED <<cfg, ret, mutated, cpy>>

Next ==
  \/ CallNext \/ CallCollect \/ CallCount \/ MutateWindow
  \/ CallForEach \/ CallCollectInto \/ CallAll \/ CallAny \/ CallTrySum
  \/ CallDunderNext

Spec == Init /\ [][Next]_vars

\* ---------------------------------------------- state machine with copy()
\* the classes of iter.py and _sync.py implement copy(); _internal.py has none
HasCopy(c) == c.fam \in {"iter", "sync"}

\* the consumer calls it.copy() and keeps the result. at is the number of
\* items the original has yielded so far; expA and expC are what the next
\* MaxAfter calls on the original alone, and on the copy alone, return.
CallCopy ==
  /\ op \in {"new", "next"}
  /\ HasCopy(cfg)
  /\ ~cpy.made
  /\ calls + MaxAfter <= MaxCalls
  /\ LET res == copy(it, world)
     IN /\ it' = res.it
        /\ world' = res.w
        /\ cpy' = [made |-> TRUE, it |-> res.c, at |-> Len(out),
                   outA |-> <<>>, outC |-> <<>>,
                   expA |-> Drive(res.it, res.w, cfg, MaxAfter),
                   expC |-> Drive(res.c, res.w, cfg, MaxAfter)]
  /\ UNCHANGED <<cfg, out, last, calls, op, ret, mutated>>

\* the consumer calls next() on the copy
CallNextCopy ==
  /\ cpy.made
  /\ Len(cpy.outC) < MaxAfter
  /\ LET res == next(cpy.it, world)
     IN /\ world' = res.w
        /\ cpy' = [cpy EXCEPT !.it = res.it,
                              !.outC = Append(@, Obs(res.r, res.w, cfg))]
  /\ UNCHANGED <<it, cfg, out, last, calls, op, ret, mutated>>

InitCopy == Init /\ HasCopy(cfg) /\ op = "new"

NextCopy == CallNext \/ CallCopy \/ CallNextCopy

SpecCopy == InitCopy /\ [][NextCopy]_vars

\* ------------------------- state machine with advance_by, nth and last
\* the arguments the consumer passes to advance_by and nth
Args == -1..MaxSize

\* what a method that returns a value or raises leaves in ret
Returned(r, w, n) ==
  [exists |-> r.exists, exc |-> r.exc, val |-> Obs(r, w, cfg).value, n |-> n]

\* the consumer calls advance_by(n)
CallAdvanceBy ==
  /\ op \in {"new", "next"}
  /\ \E n \in Args :
       LET res == advance_by(it, world, n)
       IN /\ it' = res.it
          /\ world' = res.w
          /\ ret' = [exists |-> FALSE, exc |-> res.exc, val |-> 0, n |-> n]
  /\ op' = "advance_by"
  /\ UNCHANGED <<cfg, out, last, calls, mutated, cpy>>

\* the consumer calls nth(n)
CallNth ==
  /\ op \in {"new", "next"}
  /\ \E n \in Args :
       LET res == nth(it, world, n)
       IN /\ it' = res.it
          /\ world' = res.w
          /\ ret' = Returned(res.r, res.w, n)
  /\ op' = "nth"
  /\ UNCHANGED <<cfg, out, last, calls, mutated, cpy>>

\* the consumer calls last(); on an endless pipeline the call does not return
CallLast ==
  /\ op \in {"new", "next"}
  /\ ~Endless(cfg)
  /\ LET res == last_(it, world)
     IN /\ it' = res.it
        /\ world' = res.w
        /\ ret' = Returned(res.r, res.w, 0)
  /\ op' = "last"
  /\ UNCHANGED <<cfg, out, last, calls, mutated, cpy>>

NextOps == CallNext \/ CallAdvanceBy \/ CallNth \/ CallLast

SpecOps == Init /\ [][NextOps]_vars

\* ------------------------------------------------ state machine of cycle()
\* a source of _sync.py, copyable or not
RootWith(gen, copyable) == IF copyable THEN Root("sync", gen) ELSE RootOnce("sync", gen)

\* receivers of cycle(): every pipeline of _sync.py whose construction
\* succeeds, over sources that may or may not be copyable (c2 matters to
\* Chain alone)
CyclePipelines ==
  {[fam |-> "sync", cls |-> "cycle()", inner |-> c, c1 |-> c1, c2 |-> c2] :
     c \in {p \in Pipelines : p.fam = "sync" /\ Build(p).exc = "none"},
     c1 \in BOOLEAN, c2 \in BOOLEAN}

\* the receiver of cycle() in the pipeline c
Receiver(c) ==
  BuildOver(c.inner, RootWith(c.inner.S, c.c1), RootWith(c.inner.T, c.c2))

\* the receivers that were built without misuse (the constructor of
\* CycleCopy copies its argument), each counted once
Legitimate(c) ==
  /\ c.inner.cls = "CycleCopy" => c.c1
  /\ c.inner.cls = "Chain" \/ c.c2

\* the state after receiver.cycle()
InitCycle ==
  \E c \in {p \in CyclePipelines : Legitimate(p)} :
    LET b == SyncCycle(Receiver(c).it, Receiver(c).w)
    IN /\ cfg = c
       /\ it = b.it
       /\ world = b.w
       /\ out = <<>>
       /\ last = Raise("nothing yet")
       /\ calls = 0
       /\ op = "new"
       /\ ret = [val |-> 0, exc |-> "none"]
       /\ mutated = {}
       /\ cpy = [made |-> FALSE]

NextCycle == CallNext

SpecCycle == InitCycle /\ [][NextCycle]_vars

\* ------------------------------------- state machine of stacked pipelines
\* Two adapters over root(S): Map, Enumerate or nothing ("none") on top of
\* Windows(n) or Filter(f); the Map on top of Windows is given lambda x: 0.
StackPipelines ==
  {[cls |-> "stack", fam |-> "sync", outer |-> o, inner |-> "Windows", S |-> S,
    f |-> "-", n |-> n] :
     o \in {"none", "Map", "Enumerate"}, S \in Sources, n \in 1..MaxSize}
  \cup {[cls |-> "stack", fam |-> fam, outer |-> o, inner |-> "Filter", S |-> S,
         f |-> f, n |-> 0] :
          fam \in {"iter", "sync", "internal"}, o \in {"Map", "Enumerate"},
          S \in Sources, f \in Preds}

\* the constructor calls of the adapter under the top one
BuildInner(c) ==
  IF c.inner = "Windows" THEN SyncWindows(RootOf(c.fam, c.S), c.n, World0)
  ELSE [it |-> IF c.fam = "iter" THEN IterFilter(RootOf(c.fam, c.S), c.f)
               ELSE IF c.fam = "sync" THEN SyncFilter(RootOf(c.fam, c.S), c.f)
               ELSE InternalFilter(RootOf(c.fam, c.S), c.f),
        w |-> World0]

\* the constructor call of the top adapter over the adapter b
BuildOuter(c, b) ==
  CASE c.outer = "none" -> b
    [] c.outer = "Map" ->
         LET f == IF c.inner = "Windows" THEN "zero" ELSE "add5"
         IN IF c.fam = "iter" THEN IterMap(b, f)
            ELSE IF c.fam = "sync" THEN SyncMap(b, f) ELSE InternalMap(b, f)
    [] c.outer = "Enumerate" ->
         IF c.fam = "iter" THEN IterEnumerate(b)
         ELSE IF c.fam = "sync" THEN SyncEnumerate(b) ELSE InternalEnumerate(b)

InitStack ==
  \E c \in StackPipelines :
    /\ cfg = c
    /\ it = BuildOuter(c, BuildInner(c).it)
    /\ world = BuildInner(c).w
    /\ out = <<>>
    /\ last = Raise("nothing yet")
    /\ calls = 0
    /\ op = "new"
    /\ ret = [val |-> 0, exc |-> "none"]
    /\ mutated = {}
    /\ cpy = [made |-> FALSE]

NextStack == CallNext \/ CallCount \/ CallCollectInto

SpecStack == InitStack /\ [][NextStack]_vars

\* --------------------------------- state machine of a next() call in steps
\* Pipelines of one to three of Take, Filter, FilterMap, CycleCopy and
\* CycleCached (_sync.py) over root(S), at most one of them a cycle, so that
\* what a cycle wraps is finite and its cache is bounded. A next() call of
\* the consumer is entered (op = "running") and then runs turn by turn: a
\* turn runs the call until it returns or raises, or until an iteration of
\* the while True of a Filter or FilterMap ends without leaving the loop. The
\* call counters of the world and the restart counter of the cycle are
\* bookkeeping of the model and are not kept here, so a call that never
\* returns is a cycle of states. ret.val alternates with the turns, so that a
\* turn is a step of the state machine even when it leaves the adapters as
\* they were.
LoopDepths == 1..3

LoopLayers ==
  {[cls |-> "Take", f |-> "-", n |-> n] : n \in 0..MaxSize}
  \cup {[cls |-> "Filter", f |-> f, n |-> 0] : f \in Preds}
  \cup {[cls |-> "FilterMap", f |-> f, n |-> 0] : f \in FilterMaps}
  \cup {[cls |-> cls, f |-> "-", n |-> 0] : cls \in {"CycleCopy", "CycleCached"}}

\* layers[1] is the adapter built over the root, the last one the adapter the
\* consumer calls
LoopPipelines ==
  {[cls |-> "loop", fam |-> "sync", S |-> S, layers |-> l] :
     S \in ChainSources,
     l \in {m \in UNION {[1..d -> LoopLayers] : d \in LoopDepths} :
              Cardinality({i \in DOMAIN m : m[i].cls \in {"CycleCopy", "CycleCached"}}) <= 1}}

\* the constructor call of the layer l over what was built so far
LoopOver(l, b) ==
  CASE l.cls = "Take" -> [it |-> SyncTake(b.it, l.n), w |-> b.w]
    [] l.cls = "Filter" -> [it |-> SyncFilter(b.it, l.f), w |-> b.w]
    [] l.cls = "FilterMap" -> [it |-> SyncFilterMap(b.it, l.f), w |-> b.w]
    [] l.cls = "CycleCopy" -> SyncCycleCopy(b.it, b.w)
    [] l.cls = "CycleCached" -> SyncCycleCached(b.it, b.w)

\* the constructor calls of the first k layers of the pipeline c
RECURSIVE BuildLoop(_, _)
BuildLoop(c, k) ==
  IF k = 0 THEN [it |-> Root("sync", c.S), w |-> World0]
  ELSE LoopOver(c.layers[k], BuildLoop(c, k - 1))

\* the world and the adapters without the counters the model adds
Untracked(w) ==
  [w EXCEPT !.pulls = 0, !.items = 0, !.fcalls = 0, !.copies = 0, !.misuse = 0]

RECURSIVE Uncounted(_)
Uncounted(a) ==
  CASE a.cls = "Iter" -> a
    [] a.cls = "CycleCopy" -> [a EXCEPT !.restarts = 0]
    [] OTHER -> [a EXCEPT !.it = Uncounted(a.it)]

\* Filter.next returning the items its predicate rejects
SyncFilterTurn_Negated(a, u) ==
  IF u.r.exists
  THEN [it |-> [a EXCEPT !.it = u.it],
        r |-> IF ~Holds(a.f, u.r.value) THEN Return(u.r.value) ELSE Raise("running"),
        w |-> [u.w EXCEPT !.fcalls = @ + 1]]
  ELSE Propagate(a, u)

\* Filter.next (_sync.py), lines 358-360: one iteration of the while True,
\* u being what self.it.next() gave in it. The result "running" tells that
\* the method was not left: the item did not pass, or self.it.next() is
\* itself still running
SyncFilterTurn(a, u) ==
  IF u.r.exists
  THEN [it |-> [a EXCEPT !.it = u.it],
        r |-> IF Holds(a.f, u.r.value) THEN Return(u.r.value) ELSE Raise("running"),
        w |-> [u.w EXCEPT !.fcalls = @ + 1]]
  ELSE Propagate(a, u)

\* FilterMap.next (_sync.py): one iteration of the while True, likewise
SyncFilterMapTurn(a, u) ==
  IF u.r.exists
  THEN [it |-> [a EXCEPT !.it = u.it],
        r |-> IF ApplyMaybe(a.f, u.r.value).exists
              THEN Return(ApplyMaybe(a.f, u.r.value).value) ELSE Raise("running"),
        w |-> [u.w EXCEPT !.fcalls = @ + 1]]
  ELSE Propagate(a, u)

\* Take.next (_sync.py), u being what self.it.next() gives where it is
\* called: while that call is running so is this one, and taken is as it was
SyncTakeTurn(a, w, u) ==
  IF a.taken = a.size THEN [it |-> a, r |-> Raise("StopIteration"), w |-> w]
  ELSE IF u.r.exists
       THEN [it |-> [a EXCEPT !.it = u.it, !.taken = @ + 1], r |-> u.r, w |-> u.w]
       ELSE Propagate(a, u)

\* a turn of a.next(). The root and the cycles have no loop, and what a cycle
\* is over is finite: their next() is one turn as a whole
RECURSIVE Resume(_, _)
Resume(a, w) ==
  CASE a.cls = "Take" -> SyncTakeTurn(a, w, Resume(a.it, w))
    [] a.cls = "Filter" -> SyncFilterTurn(a, Resume(a.it, w))
    [] a.cls = "FilterMap" -> SyncFilterMapTurn(a, Resume(a.it, w))
    [] OTHER -> next(a, w)

\* the state after a turn that gave res
TurnDone(res) ==
  /\ it' = Uncounted(res.it)
  /\ world' = Untracked(res.w)
  /\ op' = IF res.r.exc = "running" THEN "running" ELSE "next"
  /\ last' = IF res.r.exc = "running" THEN last ELSE res.r
  /\ out' = IF res.r.exists THEN Append(out, res.r.value) ELSE out
  /\ ret' = [ret EXCEPT !.val = 1 - @]

InitLoop ==
  \E c \in LoopPipelines :
    /\ cfg = c
    /\ it = BuildLoop(c, Len(c.layers)).it
    /\ world = Untracked(BuildLoop(c, Len(c.layers)).w)
    /\ out = <<>>
    /\ last = Raise("nothing yet")
    /\ calls = 0
    /\ op = "new"
    /\ ret = [val |-> 0, exc |-> "none"]
    /\ mutated = {}
    /\ cpy = [made |-> FALSE]

\* the consumer calls next(); the call has not run yet
Enter ==
  /\ op \in {"new", "next"}
  /\ calls < MaxLoopCalls
  /\ op' = "running"
  /\ calls' = calls + 1
  /\ UNCHANGED <<it, world, cfg, out, last, ret, mutated, cpy>>

\* the running call makes one turn, and returns if the turn ends it
Turn ==
  /\ op = "running"
  /\ TurnDone(Resume(it, world))
  /\ UNCHANGED <<cfg, calls, mutated, cpy>>

NextLoop == Enter \/ Turn

\* Turn by what it does to op and ret alone. Of the steps of NextLoop exactly
\* those of Turn are such steps, and one is possible exactly when a call is
\* running, so fairness for it is fairness for Turn
TurnTaken ==
  /\ op = "running"
  /\ op' \in {"running", "next"}
  /\ ret' = [ret EXCEPT !.val = 1 - @]

\* a call that is running keeps running: the interpreter does not stop
SpecLoop == InitLoop /\ [][NextLoop]_vars /\ WF_<<op, ret>>(TurnTaken)


\* ---------------------------------------------------------------- claims
Mapped(f, S) == [i \in 1..Len(S) |-> Apply(f, S[i])]

Filtered(p, S) == LET keep(x) == Holds(p, x) IN SelectSeq(S, keep)

\* C1: draining Map(root(S), f) with collect() returns [f(x) for x in S], in
\* order and of the same length, with f applied once per element (what next()
\* handed out before the collect() comes first).
C1_MapCollect ==
  (cfg.cls = "Map" /\ op = "collect") =>
     /\ ret.exc = "none"
     /\ out \o ret.val = Mapped(cfg.f, cfg.S)
     /\ world.fcalls = Len(cfg.S)

C1_Witness ==
  /\ cfg.cls = "Map" /\ op = "collect" /\ calls = 0
  /\ Len(cfg.S) >= 2 /\ cfg.S[1] # cfg.S[2]
  /\ ret.val = Mapped(cfg.f, cfg.S)

\* C2: count() on a freshly built Map or Enumerate over root(S) returns
\* len(S) and the function given to Map is never invoked.
C2_CountPreserved ==
  (cfg.cls \in {"Map", "Enumerate"} /\ op = "count" /\ calls = 0) =>
     /\ ret.exc = "none"
     /\ ret.val = Len(cfg.S)
     /\ world.fcalls = 0

C2_Witness ==
  /\ cfg.cls = "Map" /\ op = "count" /\ calls = 0
  /\ Len(cfg.S) >= 2 /\ ret.val = Len(cfg.S)

\* C3: Filter(root(S), p) yields exactly the elements of S satisfying p,
\* unmodified and in order; each upstream element is pulled once; exhaustion
\* is signalled only when upstream is exhausted.
C3_FilterCollect ==
  cfg.cls = "Filter" =>
     /\ world.items <= Len(cfg.S)
     /\ it.it.gen = SubSeq(cfg.S, world.items + 1, Len(cfg.S))
     /\ world.fcalls = world.items
     /\ op \in {"new", "next"} => out = Filtered(cfg.f, SubSeq(cfg.S, 1, world.items))
     /\ (op = "next" /\ Exhausted(last)) => it.it.gen = <<>>
     /\ op = "collect" =>
          /\ ret.exc = "none"
          /\ out \o ret.val = Filtered(cfg.f, cfg.S)
          /\ world.items = Len(cfg.S)

C3_Witness ==
  /\ cfg.cls = "Filter" /\ op = "collect" /\ calls = 0
  /\ Len(ret.val) >= 1 /\ Len(ret.val) < Len(cfg.S)
  /\ ret.val = Filtered(cfg.f, cfg.S)

\* Take has just signalled exhaustion for the first time
TakeDriven ==
  cfg.cls = "Take" /\ op = "next" /\ Exhausted(last) /\ calls = Len(out) + 1

\* C4 as stated: Take(n) driven to exhaustion over L items yields the first
\* min(n, L) items and has called upstream.next() at most min(n, L) times.
C4_TakePullsAtMostMin ==
  TakeDriven =>
     /\ out = SubSeq(cfg.S, 1, Min(cfg.n, Len(cfg.S)))
     /\ world.pulls <= Min(cfg.n, Len(cfg.S))

\* C4 amended: Take(n) driven to exhaustion over L items yields the first
\* min(n, L) items, obtains exactly those items from upstream, and has called
\* upstream.next() min(n, L + 1) times: when L < n the last of these calls is
\* the one on which upstream signals exhaustion.
C4_TakeYieldsMin ==
  /\ TakeDriven =>
       /\ out = SubSeq(cfg.S, 1, Min(cfg.n, Len(cfg.S)))
       /\ world.items = Min(cfg.n, Len(cfg.S))
       /\ world.pulls = Min(cfg.n, Len(cfg.S) + 1)
  /\ (cfg.cls = "Take" /\ op \in {"new", "next"}) =>
       /\ Len(out) <= Min(cfg.n, Len(cfg.S))
       /\ world.items = Len(out)
       /\ last.exists => world.pulls = Len(out)

C4_Witness ==
  /\ TakeDriven /\ Len(cfg.S) < cfg.n /\ Len(cfg.S) >= 1
  /\ world.pulls = Len(cfg.S) + 1

\* C5: Chain(A, B) yields all of A in order, then all of B in order, nothing
\* dropped, duplicated or reordered; it signals exhaustion exactly on the
\* calls made once both are used up.
C5_ChainConcat ==
  cfg.cls = "Chain" =>
     /\ op \in {"new", "next"} =>
          /\ Len(out) = Min(calls, Len(cfg.S) + Len(cfg.T))
          /\ out = SubSeq(cfg.S \o cfg.T, 1, Len(out))
     /\ op = "next" => (Exhausted(last) <=> calls > Len(cfg.S) + Len(cfg.T))
     /\ op = "next" => (last.exists <=> calls <= Len(cfg.S) + Len(cfg.T))
     /\ op = "collect" => (ret.exc = "none" /\ out \o ret.val = cfg.S \o cfg.T)

C5_Witness ==
  /\ cfg.cls = "Chain" /\ op = "collect" /\ calls = 0
  /\ cfg.S # <<>> /\ cfg.T # <<>> /\ cfg.S # cfg.T
  /\ ret.val = cfg.S \o cfg.T

\* C6: the k-th next() (k >= 0) on a Cycle over a non-empty S of length L
\* returns S[k % L], for the copy-based and the cache-based variants; the
\* cycle never signals exhaustion.
C6_CyclePositions ==
  (IsCycle(cfg) /\ cfg.S # <<>> /\ op \in {"new", "next"}) =>
     /\ Len(out) = calls
     /\ \A k \in 1..Len(out) : out[k] = cfg.S[((k - 1) % Len(cfg.S)) + 1]
     /\ op = "next" => last.exists

C6_Witness ==
  /\ cfg.cls = "CycleCached" /\ Len(cfg.S) >= 2 /\ cfg.S[1] # cfg.S[2]
  /\ Len(out) >= 2 * Len(cfg.S) + 1
  /\ last.exists /\ last.value = cfg.S[1]

\* C7: a CycleCached over an empty source signals exhaustion on every
\* next(); no other error is raised.
C7_CachedEmptyExhausts ==
  (cfg.cls = "CycleCached" /\ cfg.S = <<>> /\ op = "next") => Exhausted(last)

\* C8: a copy-based Cycle over an empty source signals exhaustion on every
\* next(), and each call restarts (copies the original) at most once.
C8_CopyEmptyExhausts ==
  (cfg.cls \in {"Cycle", "CycleCopy"} /\ cfg.S = <<>> /\ op = "next") =>
     /\ Exhausted(last)
     /\ out = <<>>
     /\ it.restarts <= calls
     /\ world.copies = 1 + it.restarts

C8_Witness ==
  /\ cfg.cls = "CycleCopy" /\ cfg.S = <<>> /\ op = "next" /\ calls >= 2
  /\ Exhausted(last) /\ it.restarts = calls

\* number of windows of size w in a sequence of length L
NumWindows(L, w) == Max(0, L - w + 1)

\* C9: Windows(size=w), w >= 1, over S yields max(0, L - w + 1) windows, the
\* i-th equal to S[i:i+w]; every returned window is a list of its own, so a
\* consumer writing into one changes neither the buffer nor another window.
C9_Windows ==
  (cfg.cls = "Windows" /\ cfg.n >= 1 /\ op \in {"new", "next"}) =>
     /\ Len(out) = Min(calls, NumWindows(Len(cfg.S), cfg.n))
     /\ op = "next" => (Exhausted(last) <=> calls > NumWindows(Len(cfg.S), cfg.n))
     /\ \A i \in 1..Len(out) :
          /\ out[i] # it.cache
          /\ \A j \in 1..Len(out) : i # j => out[i] # out[j]
          /\ Len(world.heap[out[i]]) = cfg.n
          /\ i \notin mutated =>
               world.heap[out[i]] = SubSeq(cfg.S, i, i + cfg.n - 1)
          /\ i \in mutated =>
               world.heap[out[i]] =
                 [SubSeq(cfg.S, i, i + cfg.n - 1) EXCEPT ![1] = Marker]
     /\ \A k \in 1..Len(world.heap[it.cache]) : world.heap[it.cache][k] # Marker

C9_Witness ==
  /\ cfg.cls = "Windows" /\ op = "next" /\ cfg.n >= 2
  /\ Len(out) >= 2 /\ Exhausted(last)
  /\ 1 \in mutated /\ 2 \notin mutated
  /\ world.heap[out[2]] = SubSeq(cfg.S, 2, 1 + cfg.n)

\* C10: count() on a freshly built Windows(size=w) over L items returns
\* max(0, L - (w - 1)), for every w >= 1.
C10_WindowsCount ==
  (cfg.cls = "Windows" /\ cfg.n >= 1 /\ op = "count" /\ calls = 0) =>
     ret.val = Max(0, Len(cfg.S) - (cfg.n - 1))

\* the items StepBy(k) takes from S: S[0], S[k], S[2k], ...
Stepped(S, k) == [i \in 1..((Len(S) + k - 1) \div k) |-> S[(i - 1) * k + 1]]

\* C11: StepBy(k), k >= 1, over S yields exactly S[0], S[k], S[2k], ...
\* (ceil(L/k) items); a call on which upstream runs out while the k-1 items
\* are discarded signals exhaustion and yields nothing.
C11_StepBy ==
  (cfg.cls = "StepBy" /\ cfg.n >= 1) =>
     /\ op \in {"new", "next"} =>
          /\ Len(out) = Min(calls, Len(Stepped(cfg.S, cfg.n)))
          /\ out = SubSeq(Stepped(cfg.S, cfg.n), 1, Len(out))
     /\ op = "next" => (Exhausted(last) <=> calls > Len(Stepped(cfg.S, cfg.n)))
     /\ op = "next" => (last.exists <=> calls <= Len(Stepped(cfg.S, cfg.n)))
     /\ op = "collect" =>
          (ret.exc = "none" /\ out \o ret.val = Stepped(cfg.S, cfg.n))

\* upstream ran out during the discard phase of a StepBy(k), k >= 2
C11_Witness ==
  /\ cfg.cls = "StepBy" /\ cfg.n >= 2 /\ op = "next"
  /\ Len(cfg.S) >= 2 /\ Len(cfg.S) % cfg.n = 0 /\ cfg.S[1] # cfg.S[2]
  /\ calls = Len(out) + 1 /\ Exhausted(last)
  /\ out = Stepped(cfg.S, cfg.n)

\* one sequence of observations continues as another one says
Follows(seen, expected) ==
  \A i \in 1..Len(seen) : SameObs(seen[i], expected[i])

\* C12: after c = a.copy(), under any interleaving of next() calls on a and
\* on c, c returns what it would return if a were never advanced, and a what
\* it would return if c were never advanced.
C12_CopyIndependent ==
  cpy.made => (Follows(cpy.outC, cpy.expC) /\ Follows(cpy.outA, cpy.expA))

\* the same for every class but CycleCached
CopyIndependentButCached ==
  cfg.cls # "CycleCached" => C12_CopyIndependent

\* C13: a copy of an Enumerate taken after the original has yielded k items
\* yields (k, S[k]), (k+1, S[k+1]), ... and then signals exhaustion, in
\* iter.py and in _sync.py.
C13_EnumerateCopy ==
  (cfg.cls = "Enumerate" /\ cpy.made) =>
     \A j \in 1..Len(cpy.outC) :
        /\ cpy.outC[j].exists <=> cpy.at + j <= Len(cfg.S)
        /\ cpy.outC[j].exists =>
             cpy.outC[j].value = <<cpy.at + j - 1, cfg.S[cpy.at + j]>>

\* the same for the Enumerate of _sync.py alone
SyncEnumerateCopyCarriesIndex ==
  cfg.fam = "sync" => C13_EnumerateCopy

\* C14: a copy of a copy-based Cycle over non-empty S taken after the original
\* has yielded k items returns S[(k + j) % L] on its j-th next(), j >= 0, for
\* Cycle of iter.py and CycleCopy of _sync.py.
C14_CycleCopy ==
  (cfg.cls \in {"Cycle", "CycleCopy"} /\ cfg.S # <<>> /\ cpy.made) =>
     \A j \in 1..Len(cpy.outC) :
        /\ cpy.outC[j].exists
        /\ cpy.outC[j].value = cfg.S[((cpy.at + j - 1) % Len(cfg.S)) + 1]

\* the same for CycleCopy of _sync.py alone
SyncCycleCopyRestartsFromFull ==
  cfg.fam = "sync" => C14_CycleCopy

\* ------------------------------------------------- advance_by, nth, last
\* how many next() calls a drain may need: more than any pipeline holds
DrainLen == 2 * Max(MaxLen, MaxChain) + 1

\* the number of values at the head of a sequence of observations, at most n
RECURSIVE Lead(_, _)
Lead(obs, n) ==
  IF n = 0 \/ obs = <<>> \/ ~Head(obs).exists THEN 0 ELSE 1 + Lead(Tail(obs), n - 1)

\* a value, the exhaustion signal of either style, or the exception raised
Signal(x) == IF x.exists THEN "value" ELSE IF Exhausted(x) THEN "exhausted" ELSE x.exc

SameResult(x, y) ==
  /\ Signal(x) = Signal(y)
  /\ x.exists => x.value = y.value

\* an adapter without the restart counter the model adds to the cycles
Fields(a) == IF a.cls \in {"Cycle", "CycleCopy"} THEN [a EXCEPT !.restarts = 0] ELSE a

\* advance_by(n), n >= 0, from a state whose next() calls alone would return
\* E: no exception, and what the adapter returns afterwards is E without its
\* first min(n, R) entries, R the number of values left
AdvanceByConsumes ==
  (op' = "advance_by" /\ ret'.n >= 0) =>
     LET E == Drive(it, world, cfg, ret'.n + MaxAfter)
         k == Lead(E, ret'.n)
     IN /\ ret'.exc = "none"
        /\ \A i \in 1..MaxAfter :
              SameObs(Drive(it', world', cfg, MaxAfter)[i], E[k + i])

\* nth(n), n >= 0: the result and the adapter state of advance_by(n) followed
\* by next(); the result is entry n of E
NthIsAdvanceThenNext ==
  (op' = "nth" /\ ret'.n >= 0) =>
     LET adv == advance_by(it, world, ret'.n)
         nx == next(adv.it, adv.w)
         E == Drive(it, world, cfg, ret'.n + 1)
         got == [exists |-> ret'.exists, exc |-> ret'.exc, value |-> ret'.val]
     IN /\ adv.exc = "none"
        /\ SameResult(got, Obs(nx.r, nx.w, cfg))
        /\ SameResult(got, E[Lead(E, ret'.n) + 1])
        /\ Fields(it') = Fields(nx.it)
        /\ world'.heap = nx.w.heap

\* C15: for n >= 0, advance_by(n) consumes exactly min(n, R) items and never
\* raises on early exhaustion; nth(n) gives the result and leaves the state of
\* advance_by(n) followed by next(): item n of the remaining sequence when
\* n < R, the exhaustion signal otherwise.
C15_AdvanceByNth == [][AdvanceByConsumes /\ NthIsAdvanceThenNext]_vars

\* the pipelines on which next() raises ZeroDivisionError: the cache-based
\* cycle over an empty source, Windows of size 0
DividesByZero(c) ==
  \/ c.cls = "CycleCached" /\ c.S = <<>>
  \/ c.cls = "Windows" /\ c.n = 0

\* the same on every pipeline whose next() does not divide by zero
AdvanceByNthElsewhere ==
  [][~DividesByZero(cfg) => (AdvanceByConsumes /\ NthIsAdvanceThenNext)]_vars

\* ------------------------------------------------------ invalid arguments
\* a call of advance_by or nth with n < 0 raises ValueError and changes
\* neither the adapter nor anything upstream of it (no pull, no list touched)
NegativeRejected ==
  (op' \in {"advance_by", "nth"} /\ ret'.n < 0) =>
     (ret'.exc = "ValueError" /\ ~ret'.exists /\ it' = it /\ world' = world)

\* StepBy(step_size <= 0): the constructor raised, nothing was pulled and the
\* adapter handed to it still holds all of S
StepSizeRejected ==
  (cfg.cls = "StepBy" /\ cfg.n <= 0) =>
     /\ op = "failed" /\ last.exc = "ValueError"
     /\ world.pulls = 0
     /\ it = RootOf(cfg.fam, cfg.S)

\* C17: advance_by(n) and nth(n) with n < 0, and StepBy with step_size <= 0,
\* raise ValueError at once, before any upstream item is pulled; the upstream
\* adapter's remaining sequence is unchanged.
C17_InvalidArgument == []StepSizeRejected /\ [][NegativeRejected]_vars

\* nth(-1) on a pipeline of _sync.py that has already yielded an item
C17_Witness ==
  /\ op = "nth" /\ ret.n < 0 /\ ret.exc = "ValueError"
  /\ cfg.fam = "sync" /\ Len(out) >= 1 /\ world.pulls = calls

\* ------------------------------------------------------------------ last
\* last() from a state whose next() calls alone would return E: the last of
\* the values at the head of E, or the absent result when there is none; the
\* adapter is left exhausted
LastIsFinal ==
  op' = "last" =>
     LET E == Drive(it, world, cfg, DrainLen)
         R == Lead(E, DrainLen)
     IN /\ ret'.exc = "none"
        /\ ret'.exists <=> R > 0
        /\ R > 0 => ret'.val = E[R].value
        /\ Exhausted(next(it', world').r)

\* C19: last() drains the adapter and returns the final value it produced,
\* and the absent result (no failure) on an adapter that produces no value,
\* in iter.py, _internal.py and _sync.py.
C19_Last == [][LastIsFinal]_vars

\* the same wherever a value is left, and in iter.py and _internal.py always
LastElsewhere ==
  [][(~DividesByZero(cfg)
      /\ (cfg.fam = "sync" => Drive(it, world, cfg, 1)[1].exists)) => LastIsFinal]_vars

\* ------------------------------------------------------------ exhaustion
\* the adapters the claim lists; every source of the model is finite
StaysExhaustedClasses ==
  {"Map", "Filter", "FilterMap", "Inspect", "Enumerate", "StepBy", "Take", "Chain",
   "Windows"}

\* C16: once next() has signalled exhaustion, every later next() on the same
\* adapter signals exhaustion too and yields no value (Map, Filter, FilterMap,
\* Inspect, Enumerate, StepBy, Take, Chain, Windows over finite sources).
C16_StaysExhausted ==
  [][(cfg.cls \in StaysExhaustedClasses /\ op = "next" /\ Exhausted(last)
        /\ op' = "next")
      => (Exhausted(last') /\ out' = out)]_vars

\* a StepBy that ran out while discarding, and a Windows whose upstream ran
\* out during the first fill, asked again
C16_Witness ==
  /\ op = "next" /\ Exhausted(last) /\ calls >= Len(out) + 2
  /\ \/ cfg.cls = "StepBy" /\ cfg.n >= 2 /\ cfg.S # <<>> /\ Len(cfg.S) % cfg.n = 0
     \/ cfg.cls = "Windows" /\ 1 <= Len(cfg.S) /\ Len(cfg.S) < cfg.n

\* C18: constructing Windows with size <= 0 fails at construction with the
\* invalid-argument error; no Windows with size <= 0 exists, so next() is
\* never reached with size 0.
C18_WindowsSizeRejected ==
  (cfg.cls = "Windows" /\ cfg.n <= 0) =>
     /\ op = "failed"
     /\ last.exc = "ValueError"

\* ----------------------------------------------------------------- cycle
\* whether every source under the receiver can be copied
AllCopyable(c) == c.c1 /\ (c.inner.cls = "Chain" => c.c2)

\* C20: cycle() builds the copy-based variant exactly when the receiver's
\* can_be_copied() is true, the cache-based one otherwise; can_be_copied() of
\* every wrapping adapter is that of its upstream (Chain: of both), so
\* copy() is never invoked on a pipeline with a source that reports no
\* copy-capability.
C20_CycleSelection ==
  cfg.cls = "cycle()" =>
     /\ it.cls = (IF can_be_copied(Receiver(cfg).it) THEN "CycleCopy" ELSE "CycleCached")
     /\ can_be_copied(Receiver(cfg).it) = AllCopyable(cfg)
     /\ can_be_copied(it) = AllCopyable(cfg)
     /\ it.cls = "CycleCached" => world.copies = 0
     /\ world.misuse = 0

\* a Chain whose second source alone cannot be copied got the cache-based
\* cycle and has replayed its cache
C20_Witness ==
  /\ cfg.cls = "cycle()" /\ cfg.inner.cls = "Chain" /\ cfg.c1 /\ ~cfg.c2
  /\ it.cls = "CycleCached" /\ it.use_cache /\ Len(out) > Len(cfg.inner.S) + Len(cfg.inner.T)
  /\ cfg.inner.T # <<>>

\* ------------------------------------------------------ adapter state
\* one next() call of the consumer on a Chain: before the flip a first that
\* still has an item answers and nothing else is touched; a first that is
\* exhausted is asked once, the flag flips and second answers; after the flip
\* second alone is asked
ChainDelegates ==
  (cfg.cls = "Chain" /\ op' = "next") =>
     LET v == next(it.second, world)
     IN IF it.use_second
        THEN /\ it'.use_second
             /\ it'.first = it.first
             /\ world'.pulls = world.pulls + 1
             /\ last' = v.r
             /\ it'.second = v.it
        ELSE IF it.first.gen # <<>>
        THEN /\ ~it'.use_second
             /\ last'.exists /\ last'.value = Head(it.first.gen)
             /\ it'.second = it.second
             /\ world'.pulls = world.pulls + 1
        ELSE /\ it'.use_second
             /\ world'.pulls = world.pulls + 2
             /\ last' = v.r
             /\ it'.second = v.it
             /\ it'.first.gen = <<>>

\* C21: in Chain, use_second starts false, becomes true at the first
\* exhaustion of first and never becomes false again; from the call that
\* flips it onward first.next() is never called again and every next() is
\* answered by second, in both Chain implementations.
C21_ChainFlip ==
  /\ []((cfg.cls = "Chain" /\ op = "new") => ~it.use_second)
  /\ [][cfg.cls = "Chain" => (it.use_second => it'.use_second)]_vars
  /\ [][ChainDelegates]_vars

\* a Chain that flipped on a first with items and has since been answered by
\* second: its two items, then its exhaustion signal
C21_Witness ==
  /\ cfg.cls = "Chain" /\ cfg.S # <<>> /\ Len(cfg.T) = 2
  /\ op = "next" /\ it.use_second
  /\ Len(out) = Len(cfg.S) + 2 /\ calls = Len(out) + 1

\* the list object held by the cache field of the CycleCached
CacheOf(a, w) == w.heap[a.cache]

\* in replay mode the cache holds the L items of the source and the cursor
\* is within 0..L
CachedBounds ==
  (cfg.cls = "CycleCached" /\ Len(cfg.S) >= 1 /\ it.use_cache) =>
     /\ Len(CacheOf(it, world)) = Len(cfg.S)
     /\ it.ptr \in 0..Len(cfg.S)

\* whatever happens, a CycleCached in replay mode stays in it and its cache
\* stays as it is
CachedFrozen ==
  (cfg.cls = "CycleCached" /\ Len(cfg.S) >= 1 /\ it.use_cache) =>
     /\ it'.use_cache
     /\ CacheOf(it', world') = CacheOf(it, world)

\* one next() call of the consumer on the CycleCached
CachedNext ==
  (cfg.cls = "CycleCached" /\ Len(cfg.S) >= 1 /\ calls' = calls + 1) =>
     LET cache == CacheOf(it, world)
         L == Len(cfg.S)
     IN IF it.use_cache
        THEN /\ world'.pulls = world.pulls
             /\ last'.exists /\ last'.value = cache[(it.ptr % L) + 1]
        ELSE IF it.it.gen # <<>>
        THEN /\ ~it'.use_cache
             /\ last'.exists
             /\ CacheOf(it', world') = Append(cache, last'.value)
        ELSE /\ it'.use_cache
             /\ CacheOf(it', world') = cache
             /\ last'.exists /\ last'.value = cache[(it.ptr % L) + 1]

\* C22: in CycleCached over a source of length L >= 1, use_cache is false
\* until upstream first signals exhaustion and true forever after; while
\* false each next() appends exactly the one item it returns to the cache;
\* once true, upstream.next() is never called again, the cache is never
\* modified (its length stays L), and 0 <= ptr <= L holds with each next()
\* returning cache[ptr % L].
C22_CachedReplay ==
  /\ []CachedBounds
  /\ [][CachedFrozen /\ CachedNext]_vars

\* the same while no copy of the CycleCached has been made
CachedReplayAlone ==
  /\ [](~cpy.made => CachedBounds)
  /\ [][~cpy'.made => (CachedFrozen /\ CachedNext)]_vars

\* taken stays within 0..size
TakenWithinSize ==
  (cfg.cls = "Take" /\ cfg.n >= 0) => (0 <= it.taken /\ it.taken <= it.size)

\* every step: taken rises by the number of items upstream handed over, a
\* next() that got no item leaves it alone, and at the limit nothing is asked
\* of upstream and upstream keeps what it has left
TakeCounts ==
  (cfg.cls = "Take" /\ cfg.n >= 0) =>
     /\ it'.taken - it.taken = world'.items - world.items
     /\ (op' = "next" /\ ~last'.exists) => it'.taken = it.taken
     /\ (op' = "next" /\ last'.exists) => it'.taken = it.taken + 1
     /\ it.taken = it.size =>
          /\ world'.pulls = world.pulls
          /\ it'.it = it.it
          /\ it'.taken = it.taken
          /\ op' = "next" => (Exhausted(last') /\ out' = out)

\* C23: in Take with size >= 0, 0 <= taken <= size holds in every reachable
\* state; taken is incremented only by a next() that returned an upstream
\* item (not when upstream signalled exhaustion); and once taken == size
\* every next() signals exhaustion without calling upstream.next(), leaving
\* the upstream's remaining sequence unchanged.
C23_TakeBounded == []TakenWithinSize /\ [][TakeCounts]_vars

\* a Take of 2 over three items, asked again at the limit: the third item is
\* still upstream
C23_Witness ==
  /\ cfg.cls = "Take" /\ cfg.n = 2 /\ Len(cfg.S) = 3
  /\ op = "next" /\ calls >= 4 /\ it.taken = 2
  /\ it.it.gen = <<cfg.S[3]>>

\* --------------------------------------------------- copies with state
CopiedWithState == {"Take", "StepBy", "Chain", "Windows"}

\* the fields each of these adapters keeps of its own
OwnState(a) ==
  CASE a.cls = "Take" -> <<a.taken, a.size>>
    [] a.cls = "StepBy" -> <<a.first_take, a.step_minus_one>>
    [] a.cls = "Chain" -> <<a.use_second>>
    [] a.cls = "Windows" -> <<a.ptr, a.size>>

\* the copy() call hands back an adapter with the original's own state; the
\* window buffer has the contents of the original's
CopyCarriesState ==
  (cfg.fam = "sync" /\ cfg.cls \in CopiedWithState /\ ~cpy.made /\ cpy'.made) =>
     /\ OwnState(cpy'.it) = OwnState(it)
     /\ OwnState(it') = OwnState(it)
     /\ cfg.cls = "Windows" =>
          /\ world'.heap[cpy'.it.cache] = world.heap[it.cache]
          /\ cpy'.it.cache # it.cache

\* what the copy returns is what the original would have returned from the
\* point of the copy, call for call
CopyYieldsRemaining ==
  (cfg.fam = "sync" /\ cfg.cls \in CopiedWithState /\ cpy.made) =>
     /\ \A i \in 1..MaxAfter : SameObs(cpy.expC[i], cpy.expA[i])
     /\ Follows(cpy.outC, cpy.expA)
     /\ Follows(cpy.outA, cpy.expA)

\* C24: a copy of Take, StepBy, Chain or Windows (in _sync.py) taken after
\* any number of next() calls on the original yields exactly the remaining
\* sequence the original would yield from that point: the copy carries over
\* taken, first_take, use_second, and the window buffer with its cursor,
\* rather than restarting the adapter's own state.
C24_CopyCarriesState == []CopyYieldsRemaining /\ [][CopyCarriesState]_vars

\* a copy taken of a sliding Windows after its first window, and of a Take
\* after its first item, each asked for what is left
C24_Witness ==
  /\ cfg.fam = "sync" /\ cpy.made /\ cpy.at = 1
  /\ Len(cpy.outC) = MaxAfter /\ Len(cpy.outA) = MaxAfter
  /\ \/ cfg.cls = "Windows" /\ cfg.n = 2 /\ Len(cfg.S) = 3 /\ cpy.outC[1].exists
     \/ cfg.cls = "Take" /\ cfg.n = 2 /\ Len(cfg.S) = 3 /\ ~cpy.outC[2].exists

\* ------------------------------------------------------------- Enumerate
\* the pairs (i, S[i]), zero-based, for the items of S after the first k
PairsFrom(S, k) == [j \in 1..(Len(S) - k) |-> <<k + j - 1, S[k + j]>>]

\* the number of items the terminal operation that ended the run was handed:
\* count() asks upstream and takes none, any() stops at the first pair, the
\* others take all that is left
YieldedAtEnd ==
  CASE op \in {"collect", "for_each", "collect_into", "all", "try_sum"} ->
         Len(cfg.S) - Len(out)
    [] op = "any" -> Min(1, Len(cfg.S) - Len(out))
    [] OTHER -> 0

\* what next() has returned so far and what collect() returns are the pairs
\* in order, exhaustion comes after the last one only, and the counter is the
\* number of pairs handed out
EnumeratePairs ==
  cfg.cls = "Enumerate" =>
     /\ Len(out) <= Len(cfg.S)
     /\ out = SubSeq(PairsFrom(cfg.S, 0), 1, Len(out))
     /\ (op = "next" /\ ~last.exists) => (Exhausted(last) /\ Len(out) = Len(cfg.S))
     /\ op = "collect" => (ret.exc = "none" /\ ret.val = PairsFrom(cfg.S, Len(out)))
     /\ it.curr_idx = Len(out) + YieldedAtEnd

\* a next() that signals exhaustion leaves the counter alone
EnumerateKeepsCounter ==
  (cfg.cls = "Enumerate" /\ op' = "next" /\ ~last'.exists) =>
     it'.curr_idx = it.curr_idx

\* C25: Enumerate over S yields (i, S[i]) for i = 0, 1, ..., len(S)-1 in
\* order; in every reachable state its counter equals the number of items it
\* has yielded so far, and a next() that signals exhaustion does not change
\* the counter.
C25_EnumerateCounter == []EnumeratePairs /\ [][EnumerateKeepsCounter]_vars

\* an Enumerate that yielded three pairs and was then asked twice more
C25_Witness ==
  /\ cfg.cls = "Enumerate" /\ Len(cfg.S) = 3
  /\ op = "next" /\ Len(out) = 3 /\ calls = 5 /\ it.curr_idx = 3

\* --------------------------------------------------------------- Inspect
\* how many items the pipeline's root has handed over
Consumed == Len(cfg.S) - Len(it.it.gen)

\* Inspect(root(S)) returns the items of S as they are, and f has been
\* called once for each item that left upstream, in the order they left
InspectObserves ==
  cfg.cls = "Inspect" =>
     /\ out = SubSeq(cfg.S, 1, Len(out))
     /\ (op = "next" /\ ~last.exists) => (Exhausted(last) /\ Len(out) = Len(cfg.S))
     /\ op = "collect" =>
          (ret.exc = "none" /\ ret.val = SubSeq(cfg.S, Len(out) + 1, Len(cfg.S)))
     /\ world.seen = SubSeq(cfg.S, 1, Consumed)
     /\ world.fcalls = Consumed

\* one next() call: one call of upstream's next(); f is called once, with the
\* item returned, when an item came and not at all when none came
InspectOnce ==
  (cfg.cls = "Inspect" /\ op' = "next") =>
     /\ world'.pulls = world.pulls + 1
     /\ IF last'.exists
        THEN /\ last'.value = Head(it.it.gen)
             /\ world'.seen = Append(world.seen, last'.value)
             /\ world'.fcalls = world.fcalls + 1
        ELSE /\ world'.seen = world.seen
             /\ world'.fcalls = world.fcalls

\* C26: Inspect is purely observational: each next() pulls exactly one
\* upstream item, calls the side-effect function exactly once with that item,
\* and returns the same item unmodified, so Inspect(U) yields the same
\* sequence as U and the side effect sees the items in production order; when
\* upstream signals exhaustion the side-effect function is not called.
C26_InspectObserves == []InspectObserves /\ [][InspectOnce]_vars

\* an Inspect over three items not all alike, drained by next() and asked
\* once more
C26_Witness ==
  /\ cfg.cls = "Inspect" /\ Len(cfg.S) = 3 /\ cfg.S[1] # cfg.S[2]
  /\ op = "next" /\ calls = 4 /\ Len(world.seen) = 3 /\ ~last.exists

\* ------------------------------------------------------------- FilterMap
\* the carried values of f(x) for the x of S where f(x) is Present, in order
RECURSIVE PresentValues(_, _)
PresentValues(f, S) ==
  IF S = <<>> THEN <<>>
  ELSE IF ApplyMaybe(f, Head(S)).exists
  THEN <<ApplyMaybe(f, Head(S)).value>> \o PresentValues(f, Tail(S))
  ELSE PresentValues(f, Tail(S))

\* C27: FilterMap(root(S), f) drained with collect() returns, in order, the
\* carried value of f(x) for exactly those x in S where f(x) is Present;
\* items where f(x) is Absent are skipped, f is applied once per upstream
\* item, and exhaustion is signalled only when upstream is exhausted.
C27_FilterMapCollect ==
  cfg.cls = "FilterMap" =>
     /\ op \in {"new", "next"} => out = PresentValues(cfg.f, SubSeq(cfg.S, 1, Consumed))
     /\ world.fcalls = Consumed
     /\ (op = "next" /\ ~last.exists) => (Exhausted(last) /\ it.it.gen = <<>>)
     /\ op = "collect" =>
          /\ ret.exc = "none"
          /\ out \o ret.val = PresentValues(cfg.f, cfg.S)
          /\ Consumed = Len(cfg.S)

\* collect() on a fresh FilterMap whose f turns down the first item and the
\* last and accepts the one between
C27_Witness ==
  /\ cfg.cls = "FilterMap" /\ cfg.f = "even_add5" /\ cfg.S = <<1, 2, 1>>
  /\ op = "collect" /\ out = <<>> /\ ret.val = <<7>>

\* ----------------------------------------------------- overridden count
\* IterInterface.count of the adapter's family: draining with next()
DefaultCount(a, w) ==
  IF a.fam = "iter" THEN IterCount(a, w)
  ELSE IF a.fam = "sync" THEN SyncCount(a, w) ELSE InternalCount(a, w)

\* the consumer's count() returned what draining the adapter with next()
\* from the same state would have counted
CountIsDrainCount ==
  (cfg.cls = "stack" /\ op' = "count") =>
     /\ ret'.exc = "none"
     /\ ret'.val = DefaultCount(it, world).n

\* C28: in every reachable state of a pipeline (after any number of next()
\* calls, and with Map or Enumerate stacked on top of Windows or Filter), the
\* overridden count() of Map, Enumerate and Windows returns the same number
\* as the default count would, i.e. the number of items that draining the
\* same adapter with next() from that state produces.
C28_CountAgrees == [][CountIsDrainCount]_vars

\* the same for Map and Enumerate on top of Filter
CountAgreesOverFilter == [][cfg.inner = "Filter" => CountIsDrainCount]_vars

\* the same for Windows of size 2 that has not been asked for a window yet
CountAgreesFreshPairs ==
  [][(cfg.inner = "Windows" /\ cfg.n = 2 /\ op = "new") => CountIsDrainCount]_vars

\* ----------------------------------------------------------- termination
\* What a pipeline yields, call after call: the items pre, then the items
\* per over and over (end = "cycle"), or the exception end on every further
\* call, or (end = "never") a call that does not return.
ItemAt(d, i) ==
  IF i <= Len(d.pre) THEN d.pre[i]
  ELSE d.per[((i - Len(d.pre) - 1) % Len(d.per)) + 1]

\* the layer l over a pipeline that yields d
YieldsOver(l, d) ==
  CASE l.cls = "Take" ->
         IF d.end = "cycle" \/ Len(d.pre) >= l.n
         THEN [pre |-> [i \in 1..l.n |-> ItemAt(d, i)], per |-> <<>>,
               end |-> "StopIteration"]
         ELSE d
    [] l.cls = "Filter" ->
         [pre |-> Filtered(l.f, d.pre), per |-> Filtered(l.f, d.per),
          end |-> IF d.end = "cycle" /\ Filtered(l.f, d.per) = <<>> THEN "never"
                  ELSE d.end]
    [] l.cls = "FilterMap" ->
         [pre |-> PresentValues(l.f, d.pre), per |-> PresentValues(l.f, d.per),
          end |-> IF d.end = "cycle" /\ PresentValues(l.f, d.per) = <<>> THEN "never"
                  ELSE d.end]
    [] OTHER ->   \* the cycles
         IF d.end # "StopIteration" THEN d
         ELSE IF d.pre # <<>> THEN [pre |-> <<>>, per |-> d.pre, end |-> "cycle"]
         ELSE IF l.cls = "CycleCopy" THEN d
         ELSE [pre |-> <<>>, per |-> <<>>, end |-> "ZeroDivisionError"]

RECURSIVE Yields(_, _)
Yields(c, k) ==
  IF k = 0 THEN [pre |-> c.S, per |-> <<>>, end |-> "StopIteration"]
  ELSE YieldsOver(c.layers[k], Yields(c, k - 1))

Expected == Yields(cfg, Len(cfg.layers))

\* the call in progress is one that finds a Filter or FilterMap above a
\* cycle none of whose remaining items it accepts
Starved ==
  /\ cfg.cls = "loop" /\ op = "running"
  /\ Expected.end = "never"
  /\ calls > Len(Expected.pre)

\* every call that returned gave the item, or raised the exception, that the
\* pipeline yields at its place: an item, StopIteration, or ZeroDivisionError
\* where a CycleCached is over nothing
LoopOutcomes ==
  (cfg.cls = "loop" /\ op = "next") =>
     /\ Expected.end = "never" => calls <= Len(Expected.pre)
     /\ Len(out) = IF Expected.end = "cycle" THEN calls ELSE Min(calls, Len(Expected.pre))
     /\ \A i \in 1..Len(out) : out[i] = ItemAt(Expected, i)
     /\ last.exists <=> Len(out) = calls
     /\ last.exists => last.value = out[Len(out)]
     /\ ~last.exists => last.exc = Expected.end
     /\ last.exc \in {"none", "StopIteration", "ZeroDivisionError"}
     /\ last.exc = "ZeroDivisionError" =>
          \E k \in 1..Len(cfg.layers) :
             cfg.layers[k].cls = "CycleCached" /\ Yields(cfg, k - 1).pre = <<>>

\* Take(n) over a cycle over non-empty S: call k <= n returns S[(k-1) % L],
\* every later call signals exhaustion, so a drain ends after n items
TakeOfCycle ==
  (/\ cfg.cls = "loop" /\ Len(cfg.layers) = 2 /\ cfg.S # <<>> /\ op = "next"
   /\ cfg.layers[1].cls \in {"CycleCopy", "CycleCached"}
   /\ cfg.layers[2].cls = "Take") =>
     /\ Len(out) = Min(calls, cfg.layers[2].n)
     /\ \A k \in 1..Len(out) : out[k] = cfg.S[((k - 1) % Len(cfg.S)) + 1]
     /\ IF calls <= cfg.layers[2].n THEN last.exists ELSE Exhausted(last)

\* a starved call is still running after every turn
StarvedNeverReturns == Starved => op' = "running"

====
